---- MODULE Spec2Model ----
(***************************************************************************)
(* The conversation engine of the restaurant booking agent: the chat       *)
(* handler of server/routes.ts, the NLU adapter, fallback parser, context  *)
(* merge and seating rule of server/gemini.ts, the weather resolver of     *)
(* server/weather.ts and the in-memory store of server/storage.ts.         *)
(*                                                                         *)
(* JavaScript values are tagged records ([t |-> "string", s |-> "Ana"]) so  *)
(* that truthiness, typeof and strict equality are computed as the code    *)
(* computes them.  Objects are functions from their own keys to values: a  *)
(* key that is not in the domain reads as undefined.  Strings are TLA+     *)
(* strings; temperatures are integers counting tenths of a degree.         *)
(***************************************************************************)
EXTENDS Integers, Sequences, FiniteSets, TLC

VARIABLES
    ctx,        \* the context the client holds and sends with the next message
    bookings,   \* MemStorage.bookings: bookingId -> Booking
    last,       \* what the last operation received, called and returned
    turns,      \* number of chat requests made so far; for the store on its
                \* own, the milliseconds its clock has advanced
    apiKey,     \* whether OPENWEATHER_API_KEY is set in the server's environment
    args,       \* arguments of a function applied on its own (merge, seating rule);
                \* for the store on its own, the Map's keys in insertion order
    ret         \* its result, once applied

vars == <<ctx, bookings, last, turns, apiKey, args, ret>>

(***************************************************************************)
(* JavaScript values                                                       *)
(***************************************************************************)
Undefined == [t |-> "undefined"]
Null == [t |-> "null"]
Str(s) == [t |-> "string", s |-> s]
Num(n) == [t |-> "number", n |-> n]
Bool(b) == [t |-> "boolean", b |-> b]
Obj(o) == [t |-> "object", o |-> o]

\* the empty object {}
EmptyObject == [k \in {} |-> Undefined]

\* if (x): undefined, null, "", 0 and false are falsy
Truthy(x) ==
    CASE x.t = "string" -> x.s /= ""
      [] x.t = "number" -> x.n /= 0
      [] x.t = "boolean" -> x.b
      [] x.t = "object" -> TRUE
      [] OTHER -> FALSE

\* o.k on an object held as a function from its keys
Get(o, k) == IF k \in DOMAIN o THEN o[k] ELSE Undefined

\* x.k on any value: a property of a string, number or boolean is undefined
Prop(x, k) == IF x.t = "object" THEN Get(x.o, k) ELSE Undefined

\* { ...o, k: v }
Set(o, k, v) == (k :> v) @@ o

\* a spread that was left out: the copy starts empty
NoSpread(o) == EmptyObject

\* { ...o }
Spread(o) == [k \in DOMAIN o |-> o[k]]

\* x === "s"
IsStr(x, s) == x.t = "string" /\ x.s = s

\* a || b
OrElse(a, b) == IF Truthy(a) THEN a ELSE b

(***************************************************************************)
(* Strings                                                                 *)
(***************************************************************************)
UpperCase == "ABCDEFGHIJKLMNOPQRSTUVWXYZ"
LowerCase == "abcdefghijklmnopqrstuvwxyz"
Digits == "0123456789"

CharAt(s, i) == SubSeq(s, i, i)

CharsOf(s) == {CharAt(s, k) : k \in 1..Len(s)}

UpperCaseChars == CharsOf(UpperCase)
LowerCaseChars == CharsOf(LowerCase)
DigitChars == CharsOf(Digits)

\* 0 when c does not occur in alphabet
IndexIn(alphabet, c) ==
    IF \E k \in 1..Len(alphabet) : CharAt(alphabet, k) = c
    THEN CHOOSE k \in 1..Len(alphabet) : CharAt(alphabet, k) = c
    ELSE 0

RECURSIVE toLowerCase(_)
toLowerCase(s) ==
    IF \A i \in 1..Len(s) : CharAt(s, i) \notin UpperCaseChars THEN s
    ELSE LET c == CharAt(s, 1)
         IN (IF c \in UpperCaseChars THEN CharAt(LowerCase, IndexIn(UpperCase, c)) ELSE c)
                \o toLowerCase(SubSeq(s, 2, Len(s)))

\* a test for the whole string in place of a substring: s === sub
equalsWord(s, sub) == s = sub

RECURSIVE toUpperCase(_)
toUpperCase(s) ==
    IF \A i \in 1..Len(s) : CharAt(s, i) \notin LowerCaseChars THEN s
    ELSE LET c == CharAt(s, 1)
         IN (IF c \in LowerCaseChars THEN CharAt(UpperCase, IndexIn(LowerCase, c)) ELSE c)
                \o toUpperCase(SubSeq(s, 2, Len(s)))

\* s.includes(sub)
includes(s, sub) ==
    \E i \in 1..(Len(s) - Len(sub) + 1) : SubSeq(s, i, i + Len(sub) - 1) = sub

\* s.split(sep) for a one-character separator
RECURSIVE split(_, _)
split(s, sep) ==
    IF \E i \in 1..Len(s) : CharAt(s, i) = sep
    THEN LET i == CHOOSE j \in 1..Len(s) :
                      CharAt(s, j) = sep /\ \A k \in 1..(j - 1) : CharAt(s, k) /= sep
         IN <<SubSeq(s, 1, i - 1)>> \o split(SubSeq(s, i + 1, Len(s)), sep)
    ELSE <<s>>

\* words.join(sep)
RECURSIVE join(_, _)
join(words, sep) ==
    IF Len(words) = 0 THEN ""
    ELSE IF Len(words) = 1 THEN words[1]
    ELSE words[1] \o sep \o join(Tail(words), sep)

\* no slice at all: every word is kept
sliceAll(words, n) == words

\* words.slice(0, n)
slice0(words, n) == SubSeq(words, 1, IF n < Len(words) THEN n ELSE Len(words))

IsDigit(c) == c \in DigitChars

\* the match with "0" in place of no match
matchDigitsOrZero(s) ==
    IF \E i \in 1..Len(s) : IsDigit(CharAt(s, i))
    THEN LET i == CHOOSE j \in 1..Len(s) :
                      IsDigit(CharAt(s, j)) /\ \A k \in 1..(j - 1) : ~IsDigit(CharAt(s, k))
             e == CHOOSE j \in i..Len(s) :
                      /\ \A k \in i..j : IsDigit(CharAt(s, k))
                      /\ (j = Len(s) \/ ~IsDigit(CharAt(s, j + 1)))
         IN SubSeq(s, i, e)
    ELSE "0"

\* the rightmost run of digits in place of the leftmost
matchLastDigits(s) ==
    IF \E i \in 1..Len(s) : IsDigit(CharAt(s, i))
    THEN LET e == CHOOSE j \in 1..Len(s) :
                      IsDigit(CharAt(s, j)) /\ \A k \in (j + 1)..Len(s) : ~IsDigit(CharAt(s, k))
             i == CHOOSE j \in 1..e :
                      /\ \A k \in j..e : IsDigit(CharAt(s, k))
                      /\ (j = 1 \/ ~IsDigit(CharAt(s, j - 1)))
         IN SubSeq(s, i, e)
    ELSE ""

\* s.match(/\d+/): the leftmost longest run of digits, "" when there is none
matchDigits(s) ==
    IF \E i \in 1..Len(s) : IsDigit(CharAt(s, i))
    THEN LET i == CHOOSE j \in 1..Len(s) :
                      IsDigit(CharAt(s, j)) /\ \A k \in 1..(j - 1) : ~IsDigit(CharAt(s, k))
             e == CHOOSE j \in i..Len(s) :
                      /\ \A k \in i..j : IsDigit(CharAt(s, k))
                      /\ (j = Len(s) \/ ~IsDigit(CharAt(s, j + 1)))
         IN SubSeq(s, i, e)
    ELSE ""

\* parseInt of a run of digits
RECURSIVE parseInt(_)
parseInt(d) ==
    IF Len(d) = 0 THEN 0
    ELSE 10 * parseInt(SubSeq(d, 1, Len(d) - 1)) + (IndexIn(Digits, CharAt(d, Len(d))) - 1)

\* ${n} in a template, for an integer n
RECURSIVE natToString(_)
natToString(n) ==
    IF n < 10 THEN CharAt(Digits, n + 1)
    ELSE natToString(n \div 10) \o CharAt(Digits, (n % 10) + 1)

intToString(n) == IF n < 0 THEN "-" \o natToString(-n) ELSE natToString(n)

\* days from 1970-01-01 to the civil date y-m-d
daysFromCivil(y, m, d) ==
    LET yy == IF m <= 2 THEN y - 1 ELSE y
        era == yy \div 400
        yoe == yy - era * 400
        mp == IF m > 2 THEN m - 3 ELSE m + 9
        doy == (153 * mp + 2) \div 5 + d - 1
        doe == yoe * 365 + yoe \div 4 - yoe \div 100 + doy
    IN era * 146097 + doe - 719468

(***************************************************************************)
(* shared/schema.ts                                                        *)
(***************************************************************************)
\* the step enumeration of bookingContextSchema, in order
Steps ==
    << "greeting", "collect_name", "collect_guests", "collect_date", "collect_time",
       "collect_cuisine", "collect_location", "fetch_weather", "suggest_seating",
       "collect_special_requests", "confirm_booking", "booking_complete" >>

StepSet == {Steps[i] : i \in DOMAIN Steps}

SeatingPreferences == {"indoor", "outdoor", "no_preference"}

StringFields ==
    {"customerName", "bookingDate", "bookingTime", "cuisinePreference", "location",
     "specialRequests"}

ContextFields ==
    StringFields \cup {"numberOfGuests", "seatingPreference", "weatherInfo", "step"}

\* weatherInfoSchema.safeParse succeeds
IsWeatherInfo(w) ==
    /\ w.t = "object"
    /\ {"condition", "temperature", "description", "icon"} \subseteq DOMAIN w.o
    /\ w.o.condition.t = "string"
    /\ w.o.temperature.t = "number"
    /\ w.o.description.t = "string"
    /\ w.o.icon.t = "string"
    /\ ("humidity" \in DOMAIN w.o => w.o.humidity.t = "number")
    /\ ("windSpeed" \in DOMAIN w.o => w.o.windSpeed.t = "number")

\* bookingContextSchema.safeParse succeeds: every optional field is absent or of
\* its type, and step is one of the enumeration
IsBookingContext(c) ==
    /\ \A f \in StringFields : f \in DOMAIN c => c[f].t = "string"
    /\ "numberOfGuests" \in DOMAIN c => c.numberOfGuests.t = "number"
    /\ "seatingPreference" \in DOMAIN c =>
           c.seatingPreference.t = "string" /\ c.seatingPreference.s \in SeatingPreferences
    /\ "weatherInfo" \in DOMAIN c => IsWeatherInfo(c.weatherInfo)
    /\ "step" \in DOMAIN c /\ c.step.t = "string" /\ c.step.s \in StepSet

(***************************************************************************)
(* server/gemini.ts                                                        *)
(***************************************************************************)
MinGuests == 1
MaxGuests == 20

\* the clamp without its lower limit: Math.min(20, n)
clampGuestsAbove(n) == IF n < MaxGuests THEN n ELSE MaxGuests

\* Math.min(20, Math.max(1, n))
clampGuests(n) ==
    LET lo == IF n > MinGuests THEN n ELSE MinGuests
    IN IF lo < MaxGuests THEN lo ELSE MaxGuests

\* a step test that takes any string
isAnyString(step) == step.t = "string"

isValidStep(step) == step.t = "string" /\ step.s \in StepSet

\* updated.k = data.k, whatever data.k is
CopyAlways(updated, data, k) == Set(updated, k, Prop(data, k))

\* if (data.k) updated.k = data.k
CopyIfTruthy(updated, data, k) ==
    IF Truthy(Prop(data, k)) THEN Set(updated, k, Prop(data, k)) ELSE updated

updateContext(context, parsed) ==
    LET data == Get(parsed, "extractedData")
        guests == Prop(data, "numberOfGuests")
        updated == Spread(context)
        u1 == CopyIfTruthy(updated, data, "customerName")
        u2 == IF Truthy(guests) /\ guests.t = "number"
              THEN Set(u1, "numberOfGuests", Num(clampGuests(guests.n)))
              ELSE u1
        u3 == CopyIfTruthy(u2, data, "bookingDate")
        u4 == CopyIfTruthy(u3, data, "bookingTime")
        u5 == CopyIfTruthy(u4, data, "cuisinePreference")
        u6 == CopyIfTruthy(u5, data, "location")
        u7 == CopyIfTruthy(u6, data, "specialRequests")
        merged == IF Truthy(data) THEN u7 ELSE updated
        nextStep == Get(parsed, "nextStep")
    IN IF Truthy(nextStep) /\ isValidStep(nextStep)
       THEN Set(merged, "step", nextStep)
       ELSE merged

GreetingResponse ==
    "Hello! Welcome to our restaurant booking service. I'd be happy to help you reserve a table. May I have your name, please?"

RepeatResponse == "I'm sorry, I didn't quite catch that. Could you please repeat?"

createFallbackResponse(userMessage, context) ==
    LET lowerMessage == toLowerCase(userMessage)
        step == Get(context, "step")
        words == split(userMessage, " ")
        name == IF Len(words) <= 3 THEN userMessage ELSE join(slice0(words, 2), " ")
        numMatch == matchDigits(userMessage)
        guests == clampGuests(parseInt(numMatch))
    IN IF IsStr(step, "greeting") \/ includes(lowerMessage, "hello") \/ includes(lowerMessage, "hi")
       THEN [response |-> GreetingResponse,
             context |-> Set(context, "step", Str("collect_name"))]
       ELSE IF IsStr(step, "collect_name") /\ ~Truthy(Get(context, "customerName"))
       THEN [response |-> "Nice to meet you, " \o name
                            \o "! How many guests will be joining you for dinner?",
             context |-> Set(Set(context, "customerName", Str(name)),
                             "step", Str("collect_guests"))]
       ELSE IF IsStr(step, "collect_guests") /\ numMatch /= ""
       THEN [response |-> "Wonderful! A table for " \o intToString(guests)
                            \o ". What date would you like to book? You can say something like \"tomorrow\" or give me a specific date.",
             context |-> Set(Set(context, "numberOfGuests", Num(guests)),
                             "step", Str("collect_date"))]
       ELSE [response |-> RepeatResponse, context |-> context]

HotLimit == 30
ColdLimit == 10

\* n degrees, in the tenths of a degree temperatures are held in
Degrees(n) == n * 10

\* Math.round of a temperature held in tenths: halves round up
round(temperature) == (temperature + 5) \div 10

\* the rule with the temperature limits taken inclusively (>= 30, <= 10)
seatingWithInclusiveLimits(weatherCondition, temperature) ==
    LET condition == toLowerCase(weatherCondition)
    IN [response |-> "",
        preference |->
            IF includes(condition, "rain") \/ includes(condition, "storm")
               \/ includes(condition, "snow")
            THEN "indoor"
            ELSE IF temperature >= Degrees(HotLimit) THEN "indoor"
            ELSE IF temperature <= Degrees(ColdLimit) THEN "indoor"
            ELSE IF includes(condition, "clear") \/ includes(condition, "sunny")
            THEN "outdoor"
            ELSE "no_preference"]

generateSeatingResponse(weatherCondition, temperature) ==
    LET condition == toLowerCase(weatherCondition)
        shown == intToString(round(temperature))
    IN IF includes(condition, "rain") \/ includes(condition, "storm") \/ includes(condition, "snow")
       THEN [response |-> "It looks like there might be some " \o condition
                            \o " on your booking date. I'd recommend our cozy indoor seating area where you can enjoy your meal comfortably. Does that sound good?",
             preference |-> "indoor"]
       ELSE IF temperature > Degrees(HotLimit)
       THEN [response |-> "It's going to be quite warm at " \o shown
                            \o "°C on your booking date. Our air-conditioned indoor seating would be more comfortable. Would you prefer that?",
             preference |-> "indoor"]
       ELSE IF temperature < Degrees(ColdLimit)
       THEN [response |-> "It's going to be a bit chilly at " \o shown
                            \o "°C on your booking date. Our warm indoor seating would be perfect. Sound good?",
             preference |-> "indoor"]
       ELSE IF includes(condition, "clear") \/ includes(condition, "sunny")
       THEN [response |-> "Great news! The weather looks beautiful on your booking date - "
                            \o shown \o "°C and " \o condition
                            \o "! Would you like outdoor seating to enjoy the lovely weather?",
             preference |-> "outdoor"]
       ELSE [response |-> "The weather on your booking date looks fine - around " \o shown
                            \o "°C. Would you prefer indoor or outdoor seating?",
             preference |-> "no_preference"]

\* the reply of the completion service, as the adapter sees it:
\*   threw: generateContent rejected (network, quota, authentication)
\*   text:  response.text, absent when the reply carries no text
\*   json:  what JSON.parse makes of a span of the text: [ok |-> FALSE] when it
\*          throws, [ok |-> TRUE, value |-> the object] otherwise
\* text.match(/\{[\s\S]*\}/): from the first "{" to the last "}" after it
matchJson(text) ==
    LET opens == {a \in 1..Len(text) : CharAt(text, a) = "{"}
        i == CHOOSE a \in opens : \A k \in opens : a <= k
        closes == {b \in (i + 1)..Len(text) : CharAt(text, b) = "}"}
        j == CHOOSE b \in closes : \A k \in closes : k <= b
    IN IF opens /= {} /\ closes /= {} THEN Str(SubSeq(text, i, j)) ELSE Null

DidNotUnderstand == "I'm sorry, I didn't understand that. Could you please repeat?"

\* ${x} in a template
toText(x) ==
    CASE x.t = "string" -> x.s
      [] x.t = "number" -> intToString(x.n)
      [] x.t = "boolean" -> (IF x.b THEN "true" ELSE "false")
      [] OTHER -> "[object Object]"

\* a parse that takes a reply it cannot read for an empty object
parseReplyLenient(llm) ==
    IF llm.threw THEN <<>>
    ELSE IF llm.json.ok THEN <<llm.json.value>>
    ELSE <<EmptyObject>>

\* the try block up to JSON.parse: <<parsed>>, or <<>> when generateContent
\* throws, the text has no span, or JSON.parse throws
parseReply(llm) ==
    IF llm.threw THEN <<>>
    ELSE LET text == IF Truthy(llm.text) THEN llm.text.s ELSE ""
             jsonMatch == matchJson(text)
         IN IF ~Truthy(jsonMatch) THEN <<>>
            ELSE IF ~llm.json.ok THEN <<>>
            ELSE <<llm.json.value>>

processConversation(userMessage, context, llm) ==
    LET reply == parseReply(llm)
        parsed == reply[1]
        updatedContext == updateContext(context, parsed)
        confirmed == Get(parsed, "isConfirmed")
    IN IF reply = <<>>
       THEN createFallbackResponse(userMessage, context)
       ELSE [response |-> IF Truthy(Get(parsed, "response"))
                          THEN toText(Get(parsed, "response"))
                          ELSE DidNotUnderstand,
             context |-> updatedContext,
             bookingComplete |->
                 /\ confirmed.t = "boolean" /\ confirmed.b
                 /\ IsStr(Get(updatedContext, "step"), "booking_complete")]

(***************************************************************************)
(* server/weather.ts                                                       *)
(***************************************************************************)
\* c.charCodeAt(0), for the characters a date string is made of: digits,
\* letters, space and , - . / :
charCodeAt(c) ==
    CASE IsDigit(c) -> IndexIn(Digits, c) + 47
      [] c \in UpperCaseChars -> IndexIn(UpperCase, c) + 64
      [] c \in LowerCaseChars -> IndexIn(LowerCase, c) + 96
      [] IndexIn(",-./", c) /= 0 -> IndexIn(",-./", c) + 43
      [] c = ":" -> 58
      [] c = " " -> 32

\* date.split("").reduce((acc, char) => acc + char.charCodeAt(0), 0)
RECURSIVE dateHash(_)
dateHash(date) ==
    IF Len(date) = 0 THEN 0
    ELSE dateHash(SubSeq(date, 1, Len(date) - 1)) + charCodeAt(CharAt(date, Len(date)))

MockConditions ==
    << [condition |-> "Clear", description |-> "Clear sky", temp |-> 25],
       [condition |-> "Clouds", description |-> "Partly cloudy", temp |-> 22],
       [condition |-> "Rain", description |-> "Light rain", temp |-> 18],
       [condition |-> "Sunny", description |-> "Sunny and warm", temp |-> 28] >>

getMockWeather(date) ==
    LET h == dateHash(date)
        selected == MockConditions[(h % Len(MockConditions)) + 1]
    IN Obj([condition |-> Str(selected.condition),
            temperature |-> Num(Degrees(selected.temp + (h % 5) - 2)),
            description |-> Str(selected.description),
            icon |-> Str("01d"),
            humidity |-> Num(50 + (h % 30)),
            windSpeed |-> Num(2 + (h % 8))])

\* word.charAt(0).toUpperCase() + word.slice(1)
capitalize(word) ==
    IF Len(word) = 0 THEN ""
    ELSE LET c == CharAt(word, 1)
         IN (IF c \in LowerCaseChars THEN CharAt(UpperCase, IndexIn(LowerCase, c)) ELSE c)
                \o SubSeq(word, 2, Len(word))

capitalizeWords(str) ==
    LET words == split(str, " ")
    IN join([i \in 1..Len(words) |-> capitalize(words[i])], " ")

\* an exception on its way to the nearest catch
Thrown == [t |-> "thrown"]

\* the summary built from a forecast entry or from the current weather; the
\* reads of weather[0], main and wind throw when the body lacks them
summaryOf(item, suffix) ==
    IF /\ {"weather", "main", "wind"} \subseteq DOMAIN item
       /\ Len(item.weather) > 0
    THEN Obj([condition |-> Str(item.weather[1].main),
              temperature |-> Num(item.main.temp),
              description |-> Str(capitalizeWords(item.weather[1].description) \o suffix),
              icon |-> Str(item.weather[1].icon),
              humidity |-> Num(item.main.humidity),
              windSpeed |-> Num(item.wind.speed)])
    ELSE Thrown

\* the least member of a non-empty set of indices
First(indices) == CHOOSE i \in indices : \A k \in indices : i <= k

\* item.dt_txt.split(" ")[0]
itemDate(item) == split(item.dt_txt, " ")[1]

\* parseInt(item.dt_txt.split(" ")[1].split(":")[0])
itemHour(item) == parseInt(matchDigits(split(split(item.dt_txt, " ")[2], ":")[1]))

\* a forecast request without the midday window: the first entry of the date
getForecastWeatherAnyHour(location, date, fetched) ==
    IF ~fetched.ok \/ "list" \notin DOMAIN fetched.data
    THEN Thrown
    ELSE LET list == fetched.data.list
             targetDate == split(date, "T")[1]
             sameDate == {i \in 1..Len(list) : itemDate(list[i]) = targetDate}
         IN IF sameDate /= {} THEN summaryOf(list[First(sameDate)], "")
            ELSE IF Len(list) > 0 THEN summaryOf(list[1], "")
            ELSE Null

\* a forecast request that answers null when the fetch fails
getForecastWeatherNullOnError(location, date, fetched) ==
    IF ~fetched.ok \/ "list" \notin DOMAIN fetched.data
    THEN Null
    ELSE LET list == fetched.data.list
             targetDate == split(date, "T")[1]
             sameDate == {i \in 1..Len(list) : itemDate(list[i]) = targetDate}
             midday == {i \in sameDate : itemHour(list[i]) >= 12 /\ itemHour(list[i]) <= 15}
         IN IF midday /= {} THEN summaryOf(list[First(midday)], "")
            ELSE IF sameDate /= {} THEN summaryOf(list[First(sameDate)], "")
            ELSE IF Len(list) > 0 THEN summaryOf(list[1], "")
            ELSE Null

\* fetched: what fetch(url) and response.json() give: [ok |-> FALSE] for a
\* rejected fetch or a status that is not OK, [ok |-> TRUE, data |-> body]
getForecastWeather(location, date, fetched) ==
    IF ~fetched.ok \/ "list" \notin DOMAIN fetched.data
    THEN Thrown
    ELSE LET list == fetched.data.list
             targetDate == split(date, "T")[1]
             sameDate == {i \in 1..Len(list) : itemDate(list[i]) = targetDate}
             midday == {i \in sameDate : itemHour(list[i]) >= 12 /\ itemHour(list[i]) <= 15}
         IN IF midday /= {} THEN summaryOf(list[First(midday)], "")
            ELSE IF sameDate /= {} THEN summaryOf(list[First(sameDate)], "")
            ELSE IF Len(list) > 0 THEN summaryOf(list[1], "")
            ELSE Null

getCurrentWeatherAsEstimate(location, fetched) ==
    IF ~fetched.ok THEN Thrown ELSE summaryOf(fetched.data, " (estimate)")

AllDigits(s) == \A i \in 1..Len(s) : IsDigit(CharAt(s, i))

\* new Date(s) is a valid date, for the date-only form YYYY-MM-DD
IsIsoDate(s) ==
    /\ Len(s) = 10
    /\ CharAt(s, 5) = "-" /\ CharAt(s, 8) = "-"
    /\ AllDigits(SubSeq(s, 1, 4)) /\ AllDigits(SubSeq(s, 6, 7)) /\ AllDigits(SubSeq(s, 9, 10))
    /\ parseInt(SubSeq(s, 6, 7)) \in 1..12
    /\ parseInt(SubSeq(s, 9, 10)) \in 1..31

ForecastHorizon == 5

\* the upstream requests one call makes, by endpoint: none without a key or
\* for a date before today, /forecast up to the horizon, /weather otherwise
requestsOf(date, key, net) ==
    LET isNaN == ~IsIsoDate(date)
    IN IF ~key THEN <<>>
       ELSE IF ~isNaN /\ net.diffDays < 0 THEN <<>>
       ELSE IF ~isNaN /\ net.diffDays <= ForecastHorizon THEN <<"forecast">>
       ELSE <<"weather">>

\* a resolver whose synthetic summary is keyed by the location as well
getWeatherForDateByPlace(date, location, key, net) ==
    IF ~key
    THEN getMockWeather(date \o location)
    ELSE LET isNaN == ~IsIsoDate(date)
             r == IF ~isNaN /\ net.diffDays < 0
                  THEN getMockWeather(date \o location)
                  ELSE IF ~isNaN /\ net.diffDays <= ForecastHorizon
                  THEN getForecastWeather(location, date, net.fetched)
                  ELSE getCurrentWeatherAsEstimate(location, net.fetched)
         IN IF r.t = "thrown" THEN getMockWeather(date \o location) ELSE r

\* net: the clock's and the network's part in one call: diffDays is
\* Math.floor((targetDate - today) / 86400000) when new Date(date) is a valid
\* date; when it is not, the difference is NaN and both comparisons are false
getWeatherForDate(date, location, key, net) ==
    IF ~key
    THEN getMockWeather(date)
    ELSE LET isNaN == ~IsIsoDate(date)
             r == IF ~isNaN /\ net.diffDays < 0
                  THEN getMockWeather(date)
                  ELSE IF ~isNaN /\ net.diffDays <= ForecastHorizon
                  THEN getForecastWeather(location, date, net.fetched)
                  ELSE getCurrentWeatherAsEstimate(location, net.fetched)
         IN IF r.t = "thrown" THEN getMockWeather(date) ELSE r

(***************************************************************************)
(* server/storage.ts                                                       *)
(***************************************************************************)
\* a store that keeps the booking it already has under the identifier
createBookingKeepingEarlier(store, insertBooking, id, now) ==
    LET booking == Set(Set(Set(insertBooking, "bookingId", Str(id)),
                           "status", Str("confirmed")),
                       "createdAt", Str(now))
    IN [booking |-> booking, store |-> store @@ (id :> booking)]

\* a store that files a new booking as pending
createBookingPending(store, insertBooking, id, now) ==
    LET booking == Set(Set(Set(insertBooking, "bookingId", Str(id)),
                           "status", Str("pending")),
                       "createdAt", Str(now))
    IN [booking |-> booking, store |-> (id :> booking) @@ store]

\* id: "BK-" and randomUUID().slice(0, 8).toUpperCase(); now: new Date().toISOString()
createBooking(store, insertBooking, id, now) ==
    LET booking == Set(Set(Set(insertBooking, "bookingId", Str(id)),
                           "status", Str("confirmed")),
                       "createdAt", Str(now))
    IN [booking |-> booking, store |-> (id :> booking) @@ store]

\* the identifier without its change of case
bookingIdLowerCase(uuid) == "BK-" \o SubSeq(uuid, 1, 8)

\* BK- and randomUUID().slice(0, 8).toUpperCase()
bookingIdOf(uuid) == "BK-" \o toUpperCase(SubSeq(uuid, 1, 8))

\* this.bookings.get(id)
getBooking(store, id) == IF id \in DOMAIN store THEN Obj(store[id]) ELSE Undefined

\* new Date(createdAt).getTime() for an ISO timestamp, in milliseconds counted
\* from 2030-01-01T00:00:00.000Z: the comparator only subtracts two of them
getTime(iso) ==
    LET n(a, b) == parseInt(SubSeq(iso, a, b))
        days == daysFromCivil(n(1, 4), n(6, 7), n(9, 10)) - daysFromCivil(2030, 1, 1)
    IN ((days * 24 + n(12, 13)) * 60 + n(15, 16)) * 60000 + n(18, 19) * 1000 + n(21, 23)

\* array.sort((a, b) => getTime(b.createdAt) - getTime(a.createdAt)) on an array
\* with one more element b at its end: the sort is stable, so b goes after
\* every element that is not older than it
insertNewestFirst(sorted, b) ==
    LET before == {i \in 1..Len(sorted) :
                      getTime(sorted[i].createdAt.s) >= getTime(b.createdAt.s)}
        k == Cardinality(before)
    IN SubSeq(sorted, 1, k) \o <<b>> \o SubSeq(sorted, k + 1, Len(sorted))

RECURSIVE sortNewestFirst(_)
sortNewestFirst(values) ==
    IF Len(values) = 0 THEN <<>>
    ELSE insertNewestFirst(sortNewestFirst(SubSeq(values, 1, Len(values) - 1)),
                           values[Len(values)])

\* the list without its sort: the Map's values in insertion order
getAllBookingsUnsorted(store, keys) == [i \in 1..Len(keys) |-> store[keys[i]]]

\* keys: the Map's keys in insertion order
getAllBookings(store, keys) == sortNewestFirst([i \in 1..Len(keys) |-> store[keys[i]]])

\* the Map's keys after this.bookings.set(id, ...): a new key goes last
keysAfterSet(keys, id) ==
    IF \E i \in 1..Len(keys) : keys[i] = id THEN keys ELSE Append(keys, id)

updateBookingStatus(store, id, status) ==
    IF id \notin DOMAIN store
    THEN [result |-> Undefined, store |-> store]
    ELSE LET updated == Set(store[id], "status", Str(status))
         IN [result |-> Obj(updated), store |-> Set(store, id, updated)]

\* a cancel that takes the record out of the Map
deleteBookingRemoving(store, id) ==
    [result |-> id \in DOMAIN store, store |-> [k \in DOMAIN store \ {id} |-> store[k]]]

deleteBooking(store, id) ==
    LET exists == id \in DOMAIN store
    IN [result |-> exists,
        store |-> IF exists
                  THEN Set(store, id, Set(store[id], "status", Str("cancelled")))
                  ELSE store]

(***************************************************************************)
(* server/routes.ts                                                        *)
(***************************************************************************)
WeekdayNames ==
    <<"Sunday", "Monday", "Tuesday", "Wednesday", "Thursday", "Friday", "Saturday">>

MonthNames ==
    <<"January", "February", "March", "April", "May", "June", "July", "August",
      "September", "October", "November", "December">>

\* date.toLocaleDateString("en-US", {weekday, month: "long", day, year}) on a
\* server whose time zone is UTC; "Invalid Date" when the string is no date
formatDate(dateString) ==
    IF ~IsIsoDate(dateString) THEN "Invalid Date"
    ELSE LET y == parseInt(SubSeq(dateString, 1, 4))
             m == parseInt(SubSeq(dateString, 6, 7))
             d == parseInt(SubSeq(dateString, 9, 10))
             weekday == (daysFromCivil(y, m, d) + 4) % 7
         IN WeekdayNames[weekday + 1] \o ", " \o MonthNames[m] \o " " \o intToString(d)
                \o ", " \o intToString(y)

buildBookingSummary(context) ==
    LET line(k, text) == IF Truthy(Get(context, k)) THEN <<text>> ELSE <<>>
        seating == Get(context, "seatingPreference")
        lines ==
            line("customerName", "Name: " \o toText(Get(context, "customerName")))
            \o line("numberOfGuests",
                    "Party size: " \o toText(Get(context, "numberOfGuests")) \o " guests")
            \o line("bookingDate", "Date: " \o formatDate(toText(Get(context, "bookingDate"))))
            \o line("bookingTime", "Time: " \o toText(Get(context, "bookingTime")))
            \o line("cuisinePreference", "Cuisine: " \o toText(Get(context, "cuisinePreference")))
            \o line("location", "Location: " \o toText(Get(context, "location")))
            \o (IF Truthy(seating) /\ ~IsStr(seating, "no_preference")
                THEN <<"Seating: " \o toText(seating)>> ELSE <<>>)
            \o line("specialRequests",
                    "Special requests: " \o toText(Get(context, "specialRequests")))
    IN join(lines, "\n")

\* { ...o, k: v } where v may be undefined: JSON drops an undefined property
SetDefined(o, k, v) ==
    IF v.t = "undefined" THEN [f \in DOMAIN o \ {k} |-> o[f]] ELSE Set(o, k, v)

\* one call of getWeatherForDate as the handler sees it: a date that is not a
\* string makes date.split throw, in the mock and again in the catch clause
weatherCall(date, location, key, net) ==
    [date |-> date, location |-> location,
     result |-> IF date.t /= "string" THEN Thrown
                ELSE getWeatherForDate(date.s, toText(location), key, net)]

\* what one request came to: the HTTP status and body, the store afterwards, the
\* upstream calls made in order, the NLU adapter's result when it was called
Outcome(status, body, store, weatherCalls, llmCalls, nlu) ==
    [status |-> status, body |-> body, store |-> store,
     weatherCalls |-> weatherCalls, llmCalls |-> llmCalls, nlu |-> nlu]

ServerError(store, weatherCalls, llmCalls, nlu) ==
    Outcome(500, [error |-> "Failed to process message"], store, weatherCalls, llmCalls, nlu)

\* a test that takes the bare word only
isConfirmationExact(lowerMessage) == lowerMessage \in {"yes", "confirm"}

isConfirmation(lowerMessage) ==
    \/ includes(lowerMessage, "yes")
    \/ includes(lowerMessage, "confirm")
    \/ includes(lowerMessage, "correct")
    \/ includes(lowerMessage, "looks good")
    \/ includes(lowerMessage, "that's right")

\* the weather branch without its step: the context stays on fetch_weather
fetchWeatherKeepingStep(context, weather) ==
    LET seatingResponse ==
            generateSeatingResponse(weather.o.condition.s, weather.o.temperature.n)
    IN [response |-> seatingResponse.response,
        context |-> Set(Set(context, "weatherInfo", weather),
                        "seatingPreference", Str(seatingResponse.preference))]

\* the weather branch: step fetch_weather with location and date known
fetchWeatherStep(context, weather) ==
    LET seatingResponse ==
            generateSeatingResponse(weather.o.condition.s, weather.o.temperature.n)
    IN [response |-> seatingResponse.response,
        context |-> Set(Set(Set(context, "weatherInfo", weather),
                            "seatingPreference", Str(seatingResponse.preference)),
                        "step", Str("suggest_seating"))]

\* the seating branch without the agreement group: yes, sure and sounds good
\* fall to the default
suggestSeatingWithoutAgreement(message, context) ==
    LET lowerMessage == toLowerCase(message)
        current == Get(context, "seatingPreference")
        preference ==
            IF \/ includes(lowerMessage, "outdoor") \/ includes(lowerMessage, "outside")
               \/ includes(lowerMessage, "patio")
            THEN Str("outdoor")
            ELSE IF includes(lowerMessage, "indoor") \/ includes(lowerMessage, "inside")
            THEN Str("indoor")
            ELSE OrElse(current, Str("no_preference"))
    IN [response |-> "Great choice!",
        context |-> Set(Set(context, "seatingPreference", preference),
                        "step", Str("collect_special_requests"))]

suggestSeatingStep(message, context) ==
    LET lowerMessage == toLowerCase(message)
        current == Get(context, "seatingPreference")
        preference ==
            IF \/ includes(lowerMessage, "outdoor") \/ includes(lowerMessage, "outside")
               \/ includes(lowerMessage, "patio")
            THEN Str("outdoor")
            ELSE IF includes(lowerMessage, "indoor") \/ includes(lowerMessage, "inside")
            THEN Str("indoor")
            ELSE IF \/ includes(lowerMessage, "yes") \/ includes(lowerMessage, "sure")
                    \/ includes(lowerMessage, "sounds good")
            THEN OrElse(current, Str("indoor"))
            ELSE OrElse(current, Str("no_preference"))
    IN [response |-> "Great choice! "
                       \o (IF IsStr(preference, "outdoor") THEN "Outdoor" ELSE "Indoor")
                       \o " seating it is. Do you have any special requests? For example, is this for a birthday, anniversary, or do you have any dietary requirements? If not, just say \"no special requests\".",
        context |-> Set(Set(context, "seatingPreference", preference),
                        "step", Str("collect_special_requests"))]

\* the special-requests branch without its test for a refusal: the message is
\* always taken as the request
specialRequestsAlwaysTaken(message, context) ==
    LET updatedContext ==
            Set(Set(context, "specialRequests", Str(message)), "step", Str("confirm_booking"))
    IN [response |-> "Perfect! Let me confirm your booking details:\n\n"
                       \o buildBookingSummary(updatedContext),
        context |-> updatedContext]

specialRequestsStep(message, context) ==
    LET lowerMessage == toLowerCase(message)
        hasNoRequests ==
            \/ includes(lowerMessage, "no") \/ includes(lowerMessage, "none")
            \/ includes(lowerMessage, "nothing")
        specialRequests == IF hasNoRequests THEN Undefined ELSE Str(message)
        updatedContext ==
            Set(SetDefined(context, "specialRequests", specialRequests),
                "step", Str("confirm_booking"))
    IN [response |-> "Perfect! Let me confirm your booking details:\n\n"
                       \o buildBookingSummary(updatedContext)
                       \o "\n\nIs everything correct? Say \"yes\" or \"confirm\" to complete your booking, or let me know what you'd like to change.",
        context |-> updatedContext]

DefaultGuests == 2

\* the InsertBooking of a confirmed turn; now is new Date().toISOString()
bookingDataOf(context, now) ==
    LET required ==
            [customerName |-> OrElse(Get(context, "customerName"), Str("Guest")),
             numberOfGuests |-> OrElse(Get(context, "numberOfGuests"), Num(DefaultGuests)),
             bookingDate |-> OrElse(Get(context, "bookingDate"), Str(split(now, "T")[1])),
             bookingTime |-> OrElse(Get(context, "bookingTime"), Str("7:00 PM")),
             cuisinePreference |-> OrElse(Get(context, "cuisinePreference"), Str("Any")),
             location |-> OrElse(Get(context, "location"), Str("Unknown")),
             seatingPreference |->
                 OrElse(Get(context, "seatingPreference"), Str("no_preference"))]
    IN SetDefined(SetDefined(required, "specialRequests", Get(context, "specialRequests")),
                  "weatherInfo", Get(context, "weatherInfo"))

confirmBookingStep(context, store, id, now) ==
    LET made == createBooking(store, bookingDataOf(context, now), id, now)
        booking == made.booking
    IN [store |-> made.store,
        body |-> [response |-> "Wonderful! Your booking has been confirmed! Your booking ID is "
                                 \o toText(booking.bookingId)
                                 \o ". We look forward to seeing you, "
                                 \o toText(booking.customerName) \o ", on "
                                 \o formatDate(toText(booking.bookingDate)) \o " at "
                                 \o toText(booking.bookingTime)
                                 \o ". Thank you for choosing our restaurant!",
                  context |-> Set(context, "step", Str("booking_complete")),
                  bookingComplete |-> TRUE,
                  booking |-> booking]]

\* the condition without its test of the location
fetchesFirstWithoutLocation(context) ==
    /\ IsStr(Get(context, "step"), "fetch_weather")
    /\ Truthy(Get(context, "bookingDate"))

\* routes.ts 31: the weather branch is taken up
fetchesFirst(context) ==
    /\ IsStr(Get(context, "step"), "fetch_weather")
    /\ Truthy(Get(context, "location"))
    /\ Truthy(Get(context, "bookingDate"))

\* the condition with a test too many: no fetch once a seating preference is known
fetchesAfterNluUnlessSeated(rc) ==
    /\ Truthy(Get(rc, "location"))
    /\ Truthy(Get(rc, "bookingDate"))
    /\ ~Truthy(Get(rc, "weatherInfo"))
    /\ ~Truthy(Get(rc, "seatingPreference"))
    /\ ~IsStr(Get(rc, "step"), "fetch_weather")

\* routes.ts 151-156: the weather is fetched after the NLU adapter returned rc
fetchesAfterNlu(rc) ==
    /\ Truthy(Get(rc, "location"))
    /\ Truthy(Get(rc, "bookingDate"))
    /\ ~Truthy(Get(rc, "weatherInfo"))
    /\ ~IsStr(Get(rc, "step"), "fetch_weather")

\* the context handed on as it came, the greeting step included
geminiContextUnchanged(context) == context

\* routes.ts 143-147: the model is never asked to greet again
geminiContextOf(context) ==
    IF IsStr(Get(context, "step"), "greeting")
    THEN Set(context, "step", Str("collect_name"))
    ELSE context

\* routes.ts 151-168: result is what the NLU adapter returned; the weather is
\* fetched as soon as location and date are known
nluPath(result, store, key, llm, net2, firstCalls) ==
    LET rc == result.context
        call == weatherCall(Get(rc, "bookingDate"), Get(rc, "location"), key, net2)
        weather == call.result
        seatingResponse ==
            generateSeatingResponse(weather.o.condition.s, weather.o.temperature.n)
    IN IF ~fetchesAfterNlu(rc)
       THEN Outcome(200, result, store, firstCalls, <<llm>>, <<result>>)
       ELSE IF weather.t = "thrown"
       THEN ServerError(store, firstCalls \o <<call>>, <<llm>>, <<result>>)
       ELSE IF ~Truthy(weather)
       THEN Outcome(200, Set(result, "context", Set(rc, "step", Str("fetch_weather"))),
                    store, firstCalls \o <<call>>, <<llm>>, <<result>>)
       ELSE Outcome(200,
                    Set(Set(result, "context",
                            Set(Set(Set(rc, "weatherInfo", weather),
                                    "seatingPreference", Str(seatingResponse.preference)),
                                "step", Str("suggest_seating"))),
                        "response", result.response \o "\n\n" \o seatingResponse.response),
                    store, firstCalls \o <<call>>, <<llm>>, <<result>>)

\* the weather call of the first branch, when it is made
firstWeatherCalls(context, key, net1) ==
    IF fetchesFirst(context)
    THEN <<weatherCall(Get(context, "bookingDate"), Get(context, "location"), key, net1)>>
    ELSE <<>>

\* the chain of ifs with the return of the weather branch left out: a turn
\* whose weather was found goes on to the later branches
routeWithoutWeatherReturn(message, context, firstCalls) ==
    LET step == Get(context, "step")
    IN IF firstCalls /= <<>> /\ firstCalls[1].result.t = "thrown" THEN "error"
       ELSE IF IsStr(step, "suggest_seating") THEN "suggest_seating"
       ELSE IF IsStr(step, "collect_special_requests") THEN "collect_special_requests"
       ELSE IF IsStr(step, "confirm_booking") /\ isConfirmation(toLowerCase(message))
       THEN "confirm_booking"
       ELSE "nlu"

\* the branch of the handler a request takes: the chain of ifs of routes.ts 31-143
routeOf(message, context, firstCalls) ==
    LET step == Get(context, "step")
    IN IF firstCalls /= <<>> /\ firstCalls[1].result.t = "thrown" THEN "error"
       ELSE IF firstCalls /= <<>> /\ Truthy(firstCalls[1].result) THEN "fetch_weather"
       ELSE IF IsStr(step, "suggest_seating") THEN "suggest_seating"
       ELSE IF IsStr(step, "collect_special_requests") THEN "collect_special_requests"
       ELSE IF IsStr(step, "confirm_booking") /\ isConfirmation(toLowerCase(message))
       THEN "confirm_booking"
       ELSE "nlu"

\* the handler's answer on a branch; result is the NLU adapter's result, read on
\* the general path only
chatOutcome(message, context, store, key, io, firstCalls, route, result) ==
    LET confirmed == confirmBookingStep(context, store, io.id, io.now)
    IN CASE route = "error" -> ServerError(store, firstCalls, <<>>, <<>>)
         [] route = "fetch_weather" ->
                Outcome(200, fetchWeatherStep(context, firstCalls[1].result), store,
                        firstCalls, <<>>, <<>>)
         [] route = "suggest_seating" ->
                Outcome(200, suggestSeatingStep(message, context), store, firstCalls, <<>>, <<>>)
         [] route = "collect_special_requests" ->
                Outcome(200, specialRequestsStep(message, context), store, firstCalls, <<>>, <<>>)
         [] route = "confirm_booking" ->
                Outcome(200, confirmed.body, confirmed.store, firstCalls, <<>>, <<>>)
         [] route = "nlu" -> nluPath(result, store, key, io.llm, io.net2, firstCalls)

\* POST /api/chat with a body that chatRequestSchema accepts.
\* io: the environment's part in this request: net1 and net2 for the weather
\* calls, llm for the completion service, id and now for the store
chatHandler(message, context, store, key, io) ==
    LET firstCalls == firstWeatherCalls(context, key, io.net1)
    IN chatOutcome(message, context, store, key, io, firstCalls,
                   routeOf(message, context, firstCalls),
                   processConversation(message, geminiContextOf(context), io.llm))

(***************************************************************************)
(* The inputs the model draws from                                         *)
(***************************************************************************)
\* an optional input: <<>> when absent, <<x>> when present
Opt(S) == {<<>>} \cup {<<x>> : x \in S}

\* { k: x } when the optional input is present, {} otherwise
Field(k, opt) == IF opt = <<>> THEN EmptyObject ELSE (k :> opt[1])

\* what a conversation may have collected, step aside
Collected ==
    LET name == [customerName |-> Str("Ana")]
        guests == [numberOfGuests |-> Num(4)]
        date == [bookingDate |-> Str("2030-01-01")]
        time == [bookingTime |-> Str("7:30 PM")]
        cuisine == [cuisinePreference |-> Str("Italian")]
        location == [location |-> Str("London")]
        weather == [weatherInfo |-> getMockWeather("2030-01-01"),
                    seatingPreference |-> Str("outdoor")]
        special == [specialRequests |-> Str("window seat")]
        upToCuisine == name @@ guests @@ date @@ time @@ cuisine
    IN { EmptyObject,
         name,
         name @@ guests,
         upToCuisine,
         upToCuisine @@ location,
         upToCuisine @@ location @@ weather @@ special,
         location,
         date @@ location,
         date @@ location @@ [seatingPreference |-> Str("indoor")],
         weather,
         [numberOfGuests |-> Num(50)] @@ name @@ date @@ location @@ weather,
         [numberOfGuests |-> Num(-3)],
         [numberOfGuests |-> Num(0)] @@ name }

\* the contexts a caller may send: every one passes bookingContextSchema
InitContexts == {c @@ [step |-> Str(s)] : c \in Collected, s \in StepSet}

\* the context the client starts from
initialContext == [step |-> Str("greeting")]

Messages ==
    { "hello", "this is Ana", "my name is Ana Lee", "7 people", "a table for 0",
      "we are 25", "lots of us", "outdoor please", "Inside", "no thanks",
      "birthday cake", "Yes, confirm", "change the time" }

MaxRawGuests == 25

\* what the model may put in extractedData.numberOfGuests
RawGuests ==
    {Num(n) : n \in {-MaxRawGuests, -1, 0, 1, 7, MaxGuests, MaxGuests + 1, MaxRawGuests}}
        \cup {Str("5"), Null}

\* what the model may put in extractedData
Extractions ==
    {Obj(EmptyObject), Null, Str("none")}
        \cup {Obj([numberOfGuests |-> g]) : g \in RawGuests}
        \cup { Obj([customerName |-> Str("Bob")]),
               Obj([location |-> Str("Paris")]),
               Obj([bookingDate |-> Str("2030-01-05")]),
               Obj([bookingDate |-> Str("2030-01-05"), location |-> Str("Paris")]),
               Obj([bookingDate |-> Str("tomorrow"), location |-> Str("Paris")]),
               Obj([bookingDate |-> Num(20300105), location |-> Str("Paris")]),
               Obj([bookingTime |-> Str("8:00 PM"), cuisinePreference |-> Str("Thai"),
                    specialRequests |-> Str("birthday")]),
               Obj([f \in StringFields \cup {"numberOfGuests"} |-> Null]),
               Obj([f \in StringFields |-> Str("")]) }

\* what the model may put in nextStep
ProposedSteps == {Str(s) : s \in StepSet} \cup {Str("done"), Str(""), Null, Num(3)}

\* the objects JSON.parse may return for the span of a reply
ParsedObjects ==
    { Field("extractedData", e) @@ Field("nextStep", n)
        @@ Field("isConfirmed", c) @@ Field("response", r) :
        e \in Opt(Extractions), n \in Opt(ProposedSteps),
        c \in Opt({Bool(TRUE)}), r \in Opt({Str("Noted.")}) }

\* a reply whose span parses to value
Parsed(value) ==
    [threw |-> FALSE, text |-> Str("Here is the booking: { ... } Anything else?"),
     json |-> [ok |-> TRUE, value |-> value]]

\* the completion service is unreachable
Unreachable == [threw |-> TRUE, text |-> Undefined, json |-> [ok |-> FALSE]]

\* the replies the adapter cannot use
FailedReplies ==
    { Unreachable,
      [threw |-> FALSE, text |-> Undefined, json |-> [ok |-> FALSE]],
      [threw |-> FALSE, text |-> Str("I cannot help with that."), json |-> [ok |-> FALSE]],
      [threw |-> FALSE, text |-> Str("} sorry {"), json |-> [ok |-> FALSE]],
      [threw |-> FALSE, text |-> Str("Sure: {customerName: Ana}"), json |-> [ok |-> FALSE]] }

\* the replies of one chat turn: the extractions with no step proposed, the steps
\* with nothing extracted, and location and date together with a few steps
Replies ==
    FailedReplies
        \cup {Parsed(Field("extractedData", <<e>>) @@ [response |-> Str("Noted.")]) :
                e \in Extractions}
        \cup {Parsed(Field("nextStep", <<n>>)) : n \in ProposedSteps}
        \cup {Parsed([nextStep |-> Str("booking_complete"), isConfirmed |-> c]) :
                c \in {Bool(TRUE), Bool(FALSE), Str("yes")}}
        \cup {Parsed([extractedData |->
                          Obj([bookingDate |-> Str("2030-01-05"), location |-> Str("Paris")]),
                      nextStep |-> n, response |-> Str("Noted.")]) :
                n \in {Str("fetch_weather"), Str("suggest_seating"), Str("confirm_booking")}}

ForecastEntry(at, main, description, temp) ==
    [dt_txt |-> at, weather |-> <<[main |-> main, description |-> description, icon |-> "10d"]>>,
     main |-> [temp |-> temp, humidity |-> 70], wind |-> [speed |-> 4]]

\* the network is down, or the service answers with an error status
Offline == [diffDays |-> 2, fetched |-> [ok |-> FALSE]]

\* the clock and the network of one weather call
Nets ==
    { Offline,
      [diffDays |-> -1, fetched |-> [ok |-> FALSE]],
      [diffDays |-> 2, fetched |-> [ok |-> TRUE, data |-> [list |-> <<>>]]],
      [diffDays |-> 2,
       fetched |-> [ok |-> TRUE,
                    data |-> [list |-> << ForecastEntry("2030-01-05 09:00:00", "Clouds", "few clouds", 84),
                                          ForecastEntry("2030-01-05 12:00:00", "Rain", "light rain", 184),
                                          ForecastEntry("2030-01-01 15:00:00", "Clear", "clear sky", 305) >>]]],
      [diffDays |-> 9,
       fetched |-> [ok |-> TRUE,
                    data |-> ForecastEntry("", "Clear", "clear sky", 300)]] }

\* what randomUUID() may return
Uuids == {"1a2b3c4d-5e6f-4a7b-8c9d-0e1f2a3b4c5d", "9f8e7d6c-5b4a-4321-8fed-cba987654321"}

BookingIds == {bookingIdOf(u) : u \in Uuids}

Now == "2030-01-01T10:00:00.000Z"

(***************************************************************************)
(* The chat service                                                        *)
(***************************************************************************)
NoCall == [op |-> "none"]

\* POST /api/chat: the client sends a message with the context it holds and
\* keeps the context of the answer.  The environment's part is drawn only where
\* the handler asks for it; a reply that parses is paired with the messages of
\* keyMessages only, since the adapter then makes no use of the message.
Chat(messages, keyMessages, replies, nets) ==
    /\ IsBookingContext(ctx)
    /\ \E message \in messages :
       \E net1 \in (IF apiKey /\ fetchesFirst(ctx) THEN nets ELSE {Offline}) :
          LET firstCalls == firstWeatherCalls(ctx, apiKey, net1)
              route == routeOf(message, ctx, firstCalls)
          IN \E llm \in (IF route /= "nlu" THEN {Unreachable}
                         ELSE IF message \in keyMessages THEN replies
                         ELSE replies \cap FailedReplies) :
             \E id \in (IF route = "confirm_booking" THEN BookingIds ELSE {"BK-00000000"}) :
                LET result == processConversation(message, geminiContextOf(ctx), llm)
                    again == route = "nlu" /\ fetchesAfterNlu(result.context)
                IN \E net2 \in (IF apiKey /\ again THEN nets ELSE {Offline}) :
                      LET io == [net1 |-> net1, net2 |-> net2, llm |-> llm,
                                 id |-> id, now |-> Now]
                          out == chatOutcome(message, ctx, bookings, apiKey, io,
                                             firstCalls, route, result)
                      IN /\ last' = [op |-> "chat", message |-> message, context |-> ctx,
                                     out |-> out]
                         /\ ctx' = IF out.status = 200 THEN out.body.context ELSE ctx
                         /\ bookings' = out.store
                         /\ turns' = turns + 1
                         /\ UNCHANGED <<apiKey, args, ret>>

\* chatRequestSchema.safeParse fails on the context the client holds
ChatInvalid(messages) ==
    /\ ~IsBookingContext(ctx)
    /\ \E message \in messages :
          /\ last' = [op |-> "chat", message |-> message, context |-> ctx,
                      out |-> Outcome(400, [error |-> "Invalid request"], bookings,
                                      <<>>, <<>>, <<>>)]
          /\ turns' = turns + 1
          /\ UNCHANGED <<ctx, bookings, apiKey, args, ret>>

\* one request, with any context a caller may send
InitTurn ==
    /\ ctx \in InitContexts
    /\ bookings = EmptyObject
    /\ last = NoCall
    /\ turns = 0
    /\ apiKey \in BOOLEAN
    /\ args = <<>>
    /\ ret = <<>>

\* the messages a reply that parses is paired with
KeyMessages == {"hello", "change the time"}

ChatTurn == turns = 0 /\ Chat(Messages, KeyMessages, Replies, Nets)

NextTurn == ChatTurn

SpecTurn == InitTurn /\ [][NextTurn]_vars

(***************************************************************************)
(* A conversation: the client starts from initialContext and sends each     *)
(* context it receives with its next message                               *)
(***************************************************************************)
MaxTurns == 3

TalkMessages == {"hello", "Ana", "we are 25", "Yes, confirm", "no thanks"}

\* the replies of a conversation: failures, the steps a model may propose, and
\* extractions that complete the booking details or break the context
TalkReplies ==
    { Unreachable,
      [threw |-> FALSE, text |-> Str("I cannot help with that."), json |-> [ok |-> FALSE]] }
        \cup {Parsed(Field("nextStep", <<n>>)) :
                n \in { Str("fetch_weather"), Str("suggest_seating"), Str("confirm_booking"),
                        Str("booking_complete"), Str("done"), Str(""), Null, Num(3) }}
        \cup { Parsed([nextStep |-> Str("Confirm_Booking"), isConfirmed |-> Bool(TRUE)]),
               Parsed([extractedData |->
                           Obj([bookingDate |-> Str("2030-01-05"), location |-> Str("Paris")]),
                       nextStep |-> Str("collect_location"), response |-> Str("Noted.")]),
               Parsed([extractedData |-> Obj([customerName |-> Num(7)]),
                       nextStep |-> Str("step 2")]) }

TalkNets == {Offline, [diffDays |-> 2, fetched |-> [ok |-> TRUE, data |-> [list |-> <<>>]]]}

Init ==
    /\ ctx = initialContext
    /\ bookings = EmptyObject
    /\ last = NoCall
    /\ turns = 0
    /\ apiKey \in BOOLEAN
    /\ args = <<>>
    /\ ret = <<>>

Talk == turns < MaxTurns /\ Chat(TalkMessages, {"Ana"}, TalkReplies, TalkNets)

TalkInvalid == turns < MaxTurns /\ ChatInvalid(TalkMessages)

Next == Talk \/ TalkInvalid

Spec == Init /\ [][Next]_vars

(***************************************************************************)
(* The context merge on its own                                            *)
(***************************************************************************)
MergeContexts ==
    {c @@ [step |-> Str(s)] : c \in Collected,
                              s \in {"greeting", "collect_guests", "fetch_weather"}}

MergeParsed ==
    {Field("extractedData", e) @@ Field("nextStep", n) :
        e \in Opt(Extractions), n \in Opt(ProposedSteps)}

InitMerge ==
    /\ ctx = initialContext
    /\ bookings = EmptyObject
    /\ last = NoCall
    /\ turns = 0
    /\ apiKey = FALSE
    /\ args \in {[context |-> c, parsed |-> p] : c \in MergeContexts, p \in MergeParsed}
    /\ ret = <<>>

\* updateContext(context, parsed)
Merge ==
    /\ Len(ret) = 0
    /\ ret' = <<updateContext(args.context, args.parsed)>>
    /\ UNCHANGED <<ctx, bookings, last, turns, apiKey, args>>

\* the merged context merged with the same reply once more
MergeAgain ==
    /\ Len(ret) = 1
    /\ ret' = Append(ret, updateContext(ret[1], args.parsed))
    /\ UNCHANGED <<ctx, bookings, last, turns, apiKey, args>>

NextMerge == Merge \/ MergeAgain

SpecMerge == InitMerge /\ [][NextMerge]_vars

(***************************************************************************)
(* The seating rule on its own                                             *)
(***************************************************************************)
MaxTempC == 35

Conditions ==
    { "Rain", "Thunderstorm", "Snow", "Drizzle", "Clear", "Sunny", "Clouds", "Mist",
      "Rain clearing", "SUNNY INTERVALS", "" }

\* temperatures in tenths of a degree: every half degree from -5 up, and the
\* tenths next to both limits
Temperatures ==
    {t \in Degrees(-5)..Degrees(MaxTempC) : t % 5 = 0}
        \cup {Degrees(ColdLimit) - 1, Degrees(ColdLimit) + 1,
              Degrees(HotLimit) - 1, Degrees(HotLimit) + 1}

InitSeating ==
    /\ ctx = initialContext
    /\ bookings = EmptyObject
    /\ last = NoCall
    /\ turns = 0
    /\ apiKey = FALSE
    /\ args \in {[condition |-> c, temperature |-> t] : c \in Conditions, t \in Temperatures}
    /\ ret = <<>>

\* generateSeatingResponse(condition, temperature)
Seat ==
    /\ Len(ret) = 0
    /\ ret' = <<generateSeatingResponse(args.condition, args.temperature)>>
    /\ UNCHANGED <<ctx, bookings, last, turns, apiKey, args>>

NextSeating == Seat

SpecSeating == InitSeating /\ [][NextSeating]_vars

(***************************************************************************)
(* The fallback parser on its own                                          *)
(***************************************************************************)
\* the messages of the chat service, and messages with an upper-case
\* greeting, two integers, a doubled space, a leading zero, and no text
FallbackMessages ==
    Messages \cup { "HI there", "Hello", "3 or 14 of us", "Ana  Maria Lee", "party of 007", "" }

\* the contexts a caller may send, and contexts whose name is the empty string
FallbackContexts ==
    InitContexts
        \cup {[step |-> Str(s), customerName |-> Str("")] : s \in {"collect_name", "collect_guests"}}

InitFallback ==
    /\ ctx = initialContext
    /\ bookings = EmptyObject
    /\ last = NoCall
    /\ turns = 0
    /\ apiKey = FALSE
    /\ args \in {[message |-> m, context |-> c] : m \in FallbackMessages, c \in FallbackContexts}
    /\ ret = <<>>

\* createFallbackResponse(userMessage, context)
Fallback ==
    /\ Len(ret) = 0
    /\ ret' = <<createFallbackResponse(args.message, args.context)>>
    /\ UNCHANGED <<ctx, bookings, last, turns, apiKey, args>>

NextFallback == Fallback

SpecFallback == InitFallback /\ [][NextFallback]_vars

(***************************************************************************)
(* The weather resolver on its own                                         *)
(***************************************************************************)
MinutesPerDay == 1440

\* Math.floor((targetDate.getTime() - today.getTime()) / 86400000): new Date of
\* a date-only string is midnight UTC of that date, today.setHours(0, 0, 0, 0)
\* is midnight of the server's calendar day in the server's zone, offset
\* minutes ahead of UTC.  Read only when the date is valid.
diffDaysOf(date, today, offset) ==
    LET days(d) == daysFromCivil(parseInt(SubSeq(d, 1, 4)), parseInt(SubSeq(d, 6, 7)),
                                 parseInt(SubSeq(d, 9, 10)))
    IN IF IsIsoDate(date)
       THEN ((days(date) - days(today)) * MinutesPerDay + offset) \div MinutesPerDay
       ELSE 0

\* the dates asked about: around today and around the forecast horizon, a far
\* date, and a string that is no date
WeatherDates ==
    { "2029-12-25", "2029-12-31", "2030-01-01", "2030-01-05", "2030-01-06", "2030-01-07",
      "2030-03-15", "tomorrow" }

WeatherLocations == {"London", "Paris"}

\* the server's calendar day at the time of a call
Todays == {"2030-01-01", "2030-01-02"}

\* the server's zone, in minutes ahead of UTC: New York, UTC, Berlin
ZoneOffsets == {-300, 0, 60}

\* what the upstream request of a call comes to: the answers of Nets, a body
\* without the expected members, and a forecast entry without its weather
Fetches ==
    {n.fetched : n \in Nets}
        \cup { [ok |-> TRUE,
                data |-> [list |-> << ForecastEntry("2030-01-06 12:00:00", "Clear", "clear sky", 251),
                                      ForecastEntry("2030-01-05 09:00:00", "Clouds", "broken clouds", 92),
                                      ForecastEntry("2030-01-05 18:00:00", "Rain", "light rain", 73) >>]],
               [ok |-> TRUE,
                data |-> [list |-> << ForecastEntry("2030-01-05 11:00:00", "Mist", "mist", 61),
                                      ForecastEntry("2030-01-05 16:00:00", "Snow", "light snow", -12),
                                      ForecastEntry("2030-01-05 15:00:00", "Clouds", "few clouds", 143),
                                      ForecastEntry("2030-01-05 12:00:00", "Clear", "clear sky", 154) >>]],
               [ok |-> TRUE, data |-> [cod |-> "200"]],
               [ok |-> TRUE, data |-> [list |-> <<[dt_txt |-> "2030-01-01 12:00:00"]>>]] }

\* one call of the resolver with its result
resolve(date, location, key, today, offset, fetched) ==
    LET net == [diffDays |-> diffDaysOf(date, today, offset), fetched |-> fetched]
    IN [date |-> date, location |-> location, key |-> key, today |-> today,
        offset |-> offset, fetched |-> fetched,
        requests |-> requestsOf(date, key, net),
        result |-> getWeatherForDate(date, location, key, net)]

InitWeather ==
    /\ ctx = initialContext
    /\ bookings = EmptyObject
    /\ last = NoCall
    /\ turns = 0
    /\ apiKey \in BOOLEAN
    /\ args \in {[date |-> d, location |-> l, today |-> t, offset |-> z, fetched |-> f] :
                    d \in WeatherDates, l \in {"London"}, t \in {"2030-01-01"},
                    z \in ZoneOffsets, f \in Fetches}
    /\ ret = <<>>

\* getWeatherForDate(date, location)
Resolve ==
    /\ Len(ret) = 0
    /\ ret' = <<resolve(args.date, args.location, apiKey, args.today, args.offset,
                        args.fetched)>>
    /\ UNCHANGED <<ctx, bookings, last, turns, apiKey, args>>

\* the same date resolved once more by the same server, for any location, on
\* the same day or the next, whatever the network does then
ResolveAgain ==
    /\ Len(ret) = 1
    /\ \E l \in WeatherLocations, t \in Todays, f \in Fetches :
          ret' = Append(ret, resolve(args.date, l, apiKey, t, args.offset, f))
    /\ UNCHANGED <<ctx, bookings, last, turns, apiKey, args>>

NextWeather == Resolve \/ ResolveAgain

SpecWeather == InitWeather /\ [][NextWeather]_vars

(***************************************************************************)
(* The store on its own                                                    *)
(***************************************************************************)
MaxTicks == 2

\* new Date().toISOString() when the clock has advanced tick milliseconds
toISOString(tick) == "2030-01-01T10:00:00.00" \o natToString(tick) \o "Z"

\* the bookings asked for: the defaults of an empty context, and a party of
\* four with a request
InsertBookings ==
    { bookingDataOf([step |-> Str("confirm_booking")], Now),
      bookingDataOf([step |-> Str("confirm_booking"), customerName |-> Str("Ana"),
                     numberOfGuests |-> Num(4), specialRequests |-> Str("window seat")], Now) }

\* the identifiers asked about: those the store may hold and one it never holds
LookupIds == BookingIds \cup {"BK-FFFFFFFF"}

BookingStatuses == {"pending", "confirmed", "cancelled"}

InitStore ==
    /\ ctx = initialContext
    /\ bookings = EmptyObject
    /\ last = NoCall
    /\ turns = 0
    /\ apiKey = FALSE
    /\ args = <<>>
    /\ ret = <<>>

\* storage.createBooking(insertBooking); two calls may fall in one millisecond
StoreCreate ==
    \E insertBooking \in InsertBookings, uuid \in Uuids, tick \in {turns, turns + 1} :
        LET id == bookingIdOf(uuid)
            made == createBooking(bookings, insertBooking, id, toISOString(tick))
        IN /\ tick <= MaxTicks
           /\ bookings' = made.store
           /\ args' = keysAfterSet(args, id)
           /\ turns' = tick
           /\ last' = [op |-> "create", id |-> id, before |-> bookings,
                       booking |-> made.booking]
           /\ UNCHANGED <<ctx, apiKey, ret>>

\* storage.getBooking(id)
StoreGet ==
    \E id \in LookupIds :
        /\ last' = [op |-> "get", id |-> id, before |-> bookings,
                    result |-> getBooking(bookings, id)]
        /\ UNCHANGED <<ctx, bookings, turns, apiKey, args, ret>>

\* storage.getAllBookings()
StoreList ==
    /\ last' = [op |-> "list", before |-> bookings, result |-> getAllBookings(bookings, args)]
    /\ UNCHANGED <<ctx, bookings, turns, apiKey, args, ret>>

\* storage.updateBookingStatus(id, status)
StoreUpdateStatus ==
    \E id \in LookupIds, status \in BookingStatuses :
        LET r == updateBookingStatus(bookings, id, status)
        IN /\ bookings' = r.store
           /\ last' = [op |-> "status", id |-> id, before |-> bookings, result |-> r.result]
           /\ UNCHANGED <<ctx, turns, apiKey, args, ret>>

\* storage.deleteBooking(id), the store's cancel
StoreCancel ==
    \E id \in LookupIds :
        LET r == deleteBooking(bookings, id)
        IN /\ bookings' = r.store
           /\ last' = [op |-> "cancel", id |-> id, before |-> bookings, result |-> r.result]
           /\ UNCHANGED <<ctx, turns, apiKey, args, ret>>

NextStore == StoreCreate \/ StoreGet \/ StoreList \/ StoreUpdateStatus \/ StoreCancel

SpecStore == InitStore /\ [][NextStore]_vars

(***************************************************************************)
(* The synthetic weather and the seating rule on it                        *)
(***************************************************************************)
MaxDay == 31

\* a month or a day as the two digits of an ISO date
twoDigits(n) == IF n < 10 THEN "0" \o natToString(n) ELSE natToString(n)

\* the date strings asked about: the days of a year as ISO dates, and strings
\* in other forms, a date being any string to getMockWeather
MockDates ==
    {"2030-" \o twoDigits(m) \o "-" \o twoDigits(d) : m \in 1..12, d \in 1..MaxDay}
        \cup {"", "tomorrow", "next Friday", "12/25/2030", "Dec 25, 2030 7:30 PM"}

InitMock ==
    /\ ctx = initialContext
    /\ bookings = EmptyObject
    /\ last = NoCall
    /\ turns = 0
    /\ apiKey = FALSE
    /\ args \in MockDates
    /\ ret = <<>>

\* getMockWeather(date)
Mock ==
    /\ Len(ret) = 0
    /\ ret' = <<getMockWeather(args)>>
    /\ UNCHANGED <<ctx, bookings, last, turns, apiKey, args>>

\* generateSeatingResponse(weather.condition, weather.temperature) on the
\* summary just made
SeatMock ==
    /\ Len(ret) = 1
    /\ ret' = ret \o <<generateSeatingResponse(ret[1].o.condition.s, ret[1].o.temperature.n)>>
    /\ UNCHANGED <<ctx, bookings, last, turns, apiKey, args>>

NextMock == Mock \/ SeatMock

SpecMock == InitMock /\ [][NextMock]_vars

(***************************************************************************)
(* client/src/hooks/use-speech.ts: the recognition half of the hook        *)
(***************************************************************************)
\* ctx holds the hook and the browser's recogniser:
\*   status, error, transcript   the hook's React state
\*   retryCount                  retryCountRef.current
\*   rec          the recogniser: "off", "on" (started), "ending" (an error or
\*                a stop has happened and the end event is still to come)
\*   announce     the start event of the last start() is still to come
\*   retryTimers  restarts scheduled by onerror and not yet run (1000 ms)
\*   startTimers  restarts scheduled by startListening and not yet run (100 ms)
\* ret lists the messages given to onError, turns counts the calls of
\* startListening, args counts the restarts that onerror scheduled since the
\* last call of startListening or the last error it reported.
maxRetries == 3

MaxListens == 2

\* event.error of the recogniser; "bad-grammar" stands for the kinds without a
\* message of their own
ErrorKinds == {"network", "no-speech", "not-allowed", "aborted", "bad-grammar"}

getErrorMessage(error) ==
    CASE error = "no-speech" -> "No speech detected. Please try speaking again."
      [] error = "audio-capture" -> "Microphone not found. Please check your microphone connection."
      [] error = "not-allowed" ->
             "Microphone access denied. Please allow microphone permissions in your browser."
      [] error = "network" -> "Network error connecting to speech service. Retrying..."
      [] error = "aborted" -> "Speech recognition was stopped."
      [] error = "language-not-supported" -> "Language not supported by your browser."
      [] error = "service-not-allowed" -> "Speech recognition service not allowed."
      [] OTHER -> "Speech error: " \o error \o ". Please try again."

\* recognition.start() throws InvalidStateError unless the recogniser is off
startThrows(hook) == hook.rec /= "off"

\* recognition.start() that did not throw
started(hook) == [hook EXCEPT !.rec = "on", !.announce = TRUE]

\* recognition.stop(): a started recogniser goes on to its end event
stopped(hook) == [hook EXCEPT !.rec = IF hook.rec = "on" THEN "ending" ELSE hook.rec]

\* the state of the hook on mount, the recogniser created
InitSpeech ==
    /\ ctx = [status |-> "idle", error |-> Null, transcript |-> "", retryCount |-> 0,
              rec |-> "off", announce |-> FALSE, retryTimers |-> 0, startTimers |-> 0]
    /\ bookings = EmptyObject
    /\ last = NoCall
    /\ turns = 0
    /\ apiKey = FALSE
    /\ args = 0
    /\ ret = <<>>

\* startListening(); alreadyStarted: the message of the exception start()
\* throws includes "already started", as it does in Chrome
StartListening ==
    /\ turns < MaxListens
    /\ \E alreadyStarted \in BOOLEAN :
          LET reset == [ctx EXCEPT !.transcript = "", !.error = Null, !.retryCount = 0]
          IN ctx' = IF ~startThrows(reset) THEN started(reset)
                    ELSE IF alreadyStarted
                    THEN [stopped(reset) EXCEPT !.startTimers = @ + 1]
                    ELSE reset
    /\ turns' = turns + 1
    /\ args' = 0
    /\ last' = [op |-> "startListening", before |-> ctx]
    /\ UNCHANGED <<bookings, apiKey, ret>>

\* the timeout of startListening: recognitionRef.current?.start(), outside any
\* try; it runs once the end event of the stop() before it has come
StartTimer ==
    /\ ctx.startTimers > 0
    /\ ctx.rec /= "ending"
    /\ ctx' = [(IF startThrows(ctx) THEN ctx ELSE started(ctx)) EXCEPT !.startTimers = @ - 1]
    /\ last' = [op |-> "startTimer", before |-> ctx]
    /\ UNCHANGED <<bookings, turns, apiKey, args, ret>>

\* stopListening()
StopListening ==
    /\ ctx' = [stopped(ctx) EXCEPT !.status = "idle"]
    /\ last' = [op |-> "stopListening", before |-> ctx]
    /\ UNCHANGED <<bookings, turns, apiKey, args, ret>>

\* recognition.onstart
OnStart ==
    /\ ctx.rec = "on"
    /\ ctx.announce
    /\ ctx' = [ctx EXCEPT !.status = "listening", !.error = Null, !.announce = FALSE]
    /\ last' = [op |-> "onstart", before |-> ctx]
    /\ UNCHANGED <<bookings, turns, apiKey, args, ret>>

\* recognition.onresult with a final transcript; continuous is false, so the
\* handler stops the recogniser
OnResult ==
    /\ ctx.rec = "on"
    /\ ~ctx.announce
    /\ ctx' = [stopped(ctx) EXCEPT !.transcript = "hello"]
    /\ last' = [op |-> "onresult", before |-> ctx]
    /\ UNCHANGED <<bookings, turns, apiKey, args, ret>>

\* the handler that retries once more: <= for <
onerrorRetryingOnceMore(hook, kind, calls, scheduled) ==
    IF kind = "network" /\ hook.retryCount <= maxRetries
    THEN [hook |-> [hook EXCEPT !.retryCount = @ + 1, !.retryTimers = @ + 1],
          calls |-> calls, scheduled |-> scheduled + 1]
    ELSE [hook |-> [hook EXCEPT !.retryCount = 0, !.error = Str(getErrorMessage(kind)),
                                !.status = "error"],
          calls |-> Append(calls, getErrorMessage(kind)), scheduled |-> 0]

\* recognition.onerror: the hook, the calls of onError and the count of
\* scheduled restarts afterwards
onerror(hook, kind, calls, scheduled) ==
    IF kind = "network" /\ hook.retryCount < maxRetries
    THEN [hook |-> [hook EXCEPT !.retryCount = @ + 1, !.retryTimers = @ + 1],
          calls |-> calls, scheduled |-> scheduled + 1]
    ELSE [hook |-> [hook EXCEPT !.retryCount = 0, !.error = Str(getErrorMessage(kind)),
                                !.status = "error"],
          calls |-> Append(calls, getErrorMessage(kind)), scheduled |-> 0]

\* the recogniser reports an error; its end event follows
OnError ==
    /\ ctx.rec = "on"
    /\ \E kind \in ErrorKinds :
          LET after == onerror(ctx, kind, ret, args)
          IN /\ ctx' = [after.hook EXCEPT !.rec = "ending", !.announce = FALSE]
             /\ ret' = after.calls
             /\ args' = after.scheduled
             /\ last' = [op |-> "onerror", kind |-> kind, before |-> ctx, calls |-> ret]
    /\ UNCHANGED <<bookings, turns, apiKey>>

\* the status that recognition.onend reads: the one of the render in which the
\* effect ran, the mount
mountStatus == "idle"

\* recognition.onend, after an error, a stop, or the end of speech
OnEnd ==
    /\ ctx.rec \in {"on", "ending"}
    /\ ctx' = [ctx EXCEPT !.rec = "off", !.announce = FALSE,
                          !.status = IF mountStatus = "listening" THEN "idle" ELSE @]
    /\ last' = [op |-> "onend", before |-> ctx]
    /\ UNCHANGED <<bookings, turns, apiKey, args, ret>>

\* the timeout of onerror, 1000 ms on: start() again, and the error state when
\* that throws; it runs once the end event of the error has come
RetryTimer ==
    /\ ctx.retryTimers > 0
    /\ ctx.rec /= "ending"
    /\ LET errorMessage == getErrorMessage("network")
       IN IF ~startThrows(ctx)
          THEN /\ ctx' = [started(ctx) EXCEPT !.retryTimers = @ - 1]
               /\ ret' = ret
          ELSE /\ ctx' = [ctx EXCEPT !.retryTimers = @ - 1, !.error = Str(errorMessage),
                                     !.status = "error"]
               /\ ret' = Append(ret, errorMessage)
    /\ last' = [op |-> "retryTimer", before |-> ctx]
    /\ UNCHANGED <<bookings, turns, apiKey, args>>

NextSpeech ==
    \/ StartListening
    \/ StartTimer
    \/ StopListening
    \/ OnStart
    \/ OnResult
    \/ OnError
    \/ OnEnd
    \/ RetryTimer

SpecSpeech == InitSpeech /\ [][NextSpeech]_vars

(***************************************************************************)
(* client VoiceAgent: the conversation state, the requests in flight and   *)
(* Start Over                                                              *)
(***************************************************************************)
\* ctx holds the component's state:
\*   context, messages, confirmedBooking, isProcessing   the React state
\*   contextFrom, bookingFrom, and from in each message   the number of resets
\*       that had been made when the request they come from was issued
\* ret lists the requests in flight, each with the message and context it was
\* issued with and the number of resets made before it; bookings is the
\* server's store, turns counts the resets, args the messages sent.
MaxSends == 2

MaxResets == 2

ClientMessages == {"Ana", "Yes, confirm"}

\* what the completion service answers while the client talks: nothing, or a
\* jump to the confirmation
ClientReplies == {Unreachable, Parsed(Field("nextStep", <<Str("confirm_booking")>>))}

\* apiRequest("POST", "/api/chat", {message: "hello", context: initialContext})
greetingRequest(issued) ==
    [kind |-> "greeting", message |-> "hello", context |-> initialContext, issued |-> issued]

\* the component on mount: the greeting effect has run
InitClient ==
    /\ ctx = [context |-> initialContext, contextFrom |-> 0, messages |-> <<>>,
              confirmedBooking |-> Null, bookingFrom |-> 0, isProcessing |-> TRUE]
    /\ bookings = EmptyObject
    /\ last = NoCall
    /\ turns = 0
    /\ apiKey = FALSE
    /\ args = 0
    /\ ret = <<greetingRequest(0)>>

\* sendMessage(message): from the text form or from a speech result
SendMessage ==
    /\ args < MaxSends
    /\ \E message \in ClientMessages :
          /\ ctx' = [ctx EXCEPT
                        !.messages = Append(@, [role |-> "user", content |-> message,
                                                from |-> turns]),
                        !.isProcessing = TRUE]
          /\ ret' = Append(ret, [kind |-> "chat", message |-> message,
                                 context |-> ctx.context, issued |-> turns])
          /\ last' = [op |-> "sendMessage", message |-> message]
    /\ args' = args + 1
    /\ UNCHANGED <<bookings, turns, apiKey>>

\* handleNewBooking: the Start Over button, shown once there is a message, and
\* the button of the confirmation screen
HandleNewBooking ==
    /\ turns < MaxResets
    /\ Len(ctx.messages) > 0 \/ ctx.confirmedBooking /= Null
    /\ ctx' = [context |-> initialContext, contextFrom |-> turns + 1, messages |-> <<>>,
               confirmedBooking |-> Null, bookingFrom |-> turns + 1, isProcessing |-> TRUE]
    /\ ret' = Append(ret, greetingRequest(turns + 1))
    /\ turns' = turns + 1
    /\ last' = [op |-> "handleNewBooking"]
    /\ UNCHANGED <<bookings, apiKey, args>>

\* the requests in flight without the i-th
withoutRequest(requests, i) ==
    SubSeq(requests, 1, i - 1) \o SubSeq(requests, i + 1, Len(requests))

\* the server's answer to a request in flight
answerTo(request, store, key, llm, id) ==
    chatHandler(request.message, request.context, store, key,
                [net1 |-> Offline, net2 |-> Offline, llm |-> llm, id |-> id, now |-> Now])

\* chatMutation.onSuccess(data) and onError: the state after the answer out
\* to a request of sendMessage
chatSettled(state, request, out) ==
    IF out.status /= 200 THEN [state EXCEPT !.isProcessing = FALSE]
    ELSE LET data == out.body
             booked == "booking" \in DOMAIN data /\ data.bookingComplete
         IN [state EXCEPT
               !.messages = Append(@, [role |-> "assistant", content |-> data.response,
                                       from |-> request.issued]),
               !.context = data.context,
               !.contextFrom = request.issued,
               !.confirmedBooking = IF booked THEN Obj(data.booking) ELSE @,
               !.bookingFrom = IF booked THEN request.issued ELSE @,
               !.isProcessing = FALSE]

\* the answer to a request of sendMessage arrives
ChatAnswered ==
    \E i \in 1..Len(ret) :
        /\ ret[i].kind = "chat"
        /\ \E llm \in ClientReplies, id \in BookingIds :
           \E out \in {answerTo(ret[i], bookings, apiKey, llm, id)} :
              /\ ctx' = chatSettled(ctx, ret[i], out)
              /\ bookings' = out.store
              /\ last' = [op |-> "chatAnswered", request |-> ret[i], status |-> out.status]
        /\ ret' = withoutRequest(ret, i)
        /\ UNCHANGED <<turns, apiKey, args>>

\* initializeGreeting and initializeNewBooking after their await: the state
\* after the answer out to a greeting request
greetingSettled(state, request, out) ==
    IF out.status /= 200 THEN [state EXCEPT !.isProcessing = FALSE]
    ELSE [state EXCEPT
            !.messages = <<[role |-> "assistant", content |-> out.body.response,
                            from |-> request.issued]>>,
            !.context = out.body.context,
            !.contextFrom = request.issued,
            !.isProcessing = FALSE]

\* the answer to a greeting request arrives
GreetingAnswered ==
    \E i \in 1..Len(ret) :
        /\ ret[i].kind = "greeting"
        /\ \E llm \in ClientReplies :
           \E out \in {answerTo(ret[i], bookings, apiKey, llm, "BK-00000000")} :
              /\ ctx' = greetingSettled(ctx, ret[i], out)
              /\ bookings' = out.store
              /\ last' = [op |-> "greetingAnswered", request |-> ret[i],
                          status |-> out.status]
        /\ ret' = withoutRequest(ret, i)
        /\ UNCHANGED <<turns, apiKey, args>>

NextClient == SendMessage \/ HandleNewBooking \/ ChatAnswered \/ GreetingAnswered

SpecClient == InitClient /\ [][NextClient]_vars

(***************************************************************************)
(* Properties                                                              *)
(***************************************************************************)
\* the last operation was a chat request
Chatted == last.op = "chat"

\* the last operation was a chat request that went through the NLU adapter
Delegated == Chatted /\ last.out.nlu /= <<>>

\* the completion call failed: it threw, its text has no span, or the span is
\* not JSON
LlmFailed(llm) ==
    \/ llm.threw
    \/ llm.text.t /= "string"
    \/ matchJson(llm.text.s).t = "null"
    \/ ~llm.json.ok

\* s ends with suffix
EndsWith(s, suffix) ==
    /\ Len(s) >= Len(suffix)
    /\ SubSeq(s, Len(s) - Len(suffix) + 1, Len(s)) = suffix

\* C1: whenever the completion call of a chat turn fails (it throws, the reply
\* has no {...} span, or the span is not JSON), the adapter's result is the
\* fallback parser's result on the same message and context, and the turn ends
\* with status 200 and no error in its body.
C1_FallbackOnFailure ==
    (Delegated /\ LlmFailed(last.out.llmCalls[1])) =>
        /\ last.out.nlu[1]
              = createFallbackResponse(last.message, geminiContextOf(last.context))
        /\ last.out.status = 200
        /\ "error" \notin DOMAIN last.out.body
        /\ "response" \in DOMAIN last.out.body

\* a reply whose span is not JSON, answered by the fallback parser's guest count
C1_Witness ==
    /\ Delegated
    /\ last.out.llmCalls[1].text = Str("Sure: {customerName: Ana}")
    /\ last.message = "7 people"
    /\ Get(last.out.body.context, "numberOfGuests") = Num(7)
    /\ IsStr(Get(last.out.body.context, "step"), "collect_date")

\* C2: after any sequence of chat turns from the initial context, whatever the
\* model fails at or proposes, the step of every returned context is one of the
\* twelve step values.
C2_StepIsDefined ==
    (Chatted /\ last.out.status = 200) =>
        LET step == Get(last.out.body.context, "step")
        IN step.t = "string" /\ step.s \in StepSet

\* a later turn in which the model proposed the unknown step "done"
C2_Witness ==
    /\ Delegated
    /\ turns >= 2
    /\ last.out.llmCalls[1] = Parsed([nextStep |-> Str("done")])
    /\ last.out.status = 200
    /\ Get(last.out.body.context, "step") = Get(geminiContextOf(last.context), "step")

\* the fields a merge may write
MergeFields == StringFields \cup {"numberOfGuests"}

\* the extraction has no value for the field: absent, null or empty
NoValue(x) == x.t \in {"undefined", "null"} \/ IsStr(x, "")

\* C3: for each of customerName, numberOfGuests, bookingDate, bookingTime,
\* cuisinePreference, location and specialRequests, when the extraction has no
\* value for the field (absent, null, empty) the merged context keeps the
\* field's previous value.
C3_MergeKeepsPopulated ==
    Len(ret) >= 1 =>
        \A f \in MergeFields :
            NoValue(Prop(Get(args.parsed, "extractedData"), f)) =>
                Get(ret[1], f) = Get(args.context, f)

\* a merge that writes the name and keeps the location the extraction is silent about
C3_Witness ==
    /\ Len(ret) = 1
    /\ Get(args.parsed, "extractedData") = Obj([customerName |-> Str("Bob")])
    /\ IsStr(Get(args.context, "location"), "London")
    /\ IsStr(Get(ret[1], "location"), "London")
    /\ IsStr(Get(ret[1], "customerName"), "Bob")

\* C4: whenever the adapter's result carries a numberOfGuests other than the one
\* it was given (written by the merge from an extraction, or by the fallback
\* parser from an integer in the message), the value is a number within 1..20.
C4_WrittenGuestsInRange ==
    Delegated =>
        LET before == Get(last.context, "numberOfGuests")
            after == Get(last.out.nlu[1].context, "numberOfGuests")
        IN after /= before => after.t = "number" /\ after.n \in 1..20

\* an extraction above 20 written as 20
C4_Witness ==
    /\ Delegated
    /\ parseReply(last.out.llmCalls[1]) /= <<>>
    /\ LET guests == Prop(Get(parseReply(last.out.llmCalls[1])[1], "extractedData"),
                          "numberOfGuests")
       IN guests.t = "number" /\ guests.n > 20
    /\ Get(last.context, "numberOfGuests") /= Num(20)
    /\ Get(last.out.nlu[1].context, "numberOfGuests") = Num(20)

\* C5: every context returned by a chat turn, and every booking created by a
\* confirmed turn, has numberOfGuests within 1..20, also when the incoming
\* context carried a value outside that range.
C5_GuestsClamped ==
    (Chatted /\ last.out.status = 200) =>
        /\ "numberOfGuests" \in DOMAIN last.out.body.context =>
               last.out.body.context.numberOfGuests.n \in 1..20
        /\ "booking" \in DOMAIN last.out.body =>
               last.out.body.booking.numberOfGuests.n \in 1..20

\* C6: the merge takes the proposed next step only when it is one of the twelve
\* step values; for any other proposal (unknown string, empty, absent, not a
\* string) the merged context keeps the incoming step, and a context is returned.
C6_StepAcceptedOnlyIfValid ==
    Len(ret) >= 1 =>
        LET proposed == Get(args.parsed, "nextStep")
        IN /\ "step" \in DOMAIN ret[1]
           /\ ret[1].step = IF proposed.t = "string" /\ proposed.s \in StepSet
                             THEN proposed
                             ELSE args.context.step

\* the unknown step "done" proposed and the step kept
C6_Witness ==
    /\ Len(ret) = 1
    /\ Get(args.parsed, "nextStep") = Str("done")
    /\ IsStr(args.context.step, "collect_guests")
    /\ IsStr(ret[1].step, "collect_guests")

\* C7: merging a context with an empty extraction object and no proposed step
\* gives a context equal to the input in every field, and merging the result
\* again gives the same context.
C7_EmptyMergeIsIdentity ==
    (args.parsed = [extractedData |-> Obj(EmptyObject)]) =>
        \A i \in 1..Len(ret) : ret[i] = args.context

\* a context with weather and seating merged twice with an empty extraction
C7_Witness ==
    /\ Len(ret) = 2
    /\ args.parsed = [extractedData |-> Obj(EmptyObject)]
    /\ {"weatherInfo", "seatingPreference", "customerName"} \subseteq DOMAIN args.context
    /\ ret[2] = args.context

\* the condition, in lower case, names one of the words
Names(condition, words) == \E w \in words : includes(toLowerCase(condition), w)

\* C8: for every condition and temperature the rule returns exactly one of the
\* three preferences, by first match: rain, storm or snow in the condition
\* gives indoor; otherwise above 30 degrees gives indoor; otherwise below 10
\* degrees gives indoor; otherwise clear or sunny gives outdoor (also at exactly
\* 10 and exactly 30 degrees); otherwise no_preference.
C8_SeatingRule ==
    Len(ret) >= 1 =>
        /\ ret[1].preference \in SeatingPreferences
        /\ ret[1].preference =
              IF Names(args.condition, {"rain", "storm", "snow"}) THEN "indoor"
              ELSE IF args.temperature > 300 THEN "indoor"
              ELSE IF args.temperature < 100 THEN "indoor"
              ELSE IF Names(args.condition, {"clear", "sunny"}) THEN "outdoor"
              ELSE "no_preference"

\* clear weather at exactly 30 degrees seated outdoors
C8_Witness ==
    /\ Len(ret) = 1
    /\ args.condition = "Clear"
    /\ args.temperature = 300
    /\ ret[1].preference = "outdoor"

\* location and date are known and no weather is attached
KnowsPlaceAndDate(c) ==
    /\ Truthy(Get(c, "location"))
    /\ Truthy(Get(c, "bookingDate"))
    /\ ~Truthy(Get(c, "weatherInfo"))

\* every call of the resolver in the turn returned a summary
ResolverAnswered == \A i \in DOMAIN last.out.weatherCalls : Truthy(last.out.weatherCalls[i].result)

\* the seating rule's answer for the weather attached to context c
RuleFor(c) ==
    generateSeatingResponse(c.weatherInfo.o.condition.s, c.weatherInfo.o.temperature.n)

\* the turn returned a context with weather attached, the rule's preference, step
\* suggest_seating, and a response that ends with the rule's rationale
Seated ==
    /\ last.out.status = 200
    /\ Truthy(Get(last.out.body.context, "weatherInfo"))
    /\ Get(last.out.body.context, "seatingPreference")
          = Str(RuleFor(last.out.body.context).preference)
    /\ IsStr(Get(last.out.body.context, "step"), "suggest_seating")
    /\ EndsWith(last.out.body.response, RuleFor(last.out.body.context).response)

Appended ==
    last.out.body.response
        = last.out.nlu[1].response \o "\n\n" \o RuleFor(last.out.body.context).response

C11_WeatherOnlyWithPlaceAndDate ==
    ( /\ Chatted
      /\ last.out.status = 200
      /\ ~Truthy(Get(last.context, "weatherInfo"))
      /\ Truthy(Get(last.out.body.context, "weatherInfo")) )
    => /\ Truthy(Get(last.out.body.context, "location"))
       /\ Truthy(Get(last.out.body.context, "bookingDate"))
       /\ Get(last.out.body.context, "seatingPreference")
             = Str(RuleFor(last.out.body.context).preference)

\* the model extracts the location the context lacked, and weather is attached
C11_Witness ==
    /\ Delegated
    /\ last.out.status = 200
    /\ ~Truthy(Get(last.context, "location"))
    /\ ~Truthy(Get(last.context, "weatherInfo"))
    /\ Truthy(Get(last.out.body.context, "weatherInfo"))
    /\ IsStr(Get(last.out.body.context, "location"), "Paris")

\* the message, in lower case, holds one of the words
Mentions(message, words) == \E w \in words : includes(toLowerCase(message), w)

\* contexts a and b agree on every field outside fields
SameExcept(a, b, fields) ==
    \A f \in (DOMAIN a \cup DOMAIN b) \ fields : Get(a, f) = Get(b, f)

\* the last operation was a chat request on the given incoming step
ChattedOn(step) == Chatted /\ IsStr(Get(last.context, "step"), step)

\* the turn answered 200 with the given step, and with every field other than
\* the step and those of fields as in the incoming context
Advanced(step, fields) ==
    /\ last.out.status = 200
    /\ IsStr(Get(last.out.body.context, "step"), step)
    /\ SameExcept(last.out.body.context, last.context, fields \cup {"step"})

\* the preference a turn on suggest_seating decides, given what a message of
\* no keyword group comes to
SeatingChoice(other) ==
    LET current == Get(last.context, "seatingPreference")
    IN IF Mentions(last.message, {"outdoor", "outside", "patio"}) THEN Str("outdoor")
       ELSE IF Mentions(last.message, {"indoor", "inside"}) THEN Str("indoor")
       ELSE IF Mentions(last.message, {"yes", "sure", "sounds good"})
       THEN (IF Truthy(current) THEN current ELSE Str("indoor"))
       ELSE other

\* C12 as stated: a turn on suggest_seating takes outdoor for outdoor, outside
\* or patio, else indoor for indoor or inside, else for yes, sure or sounds
\* good the current preference or indoor when none is set, and for any other
\* message leaves the preference as it was in the incoming context, unset
\* staying unset; the returned step is collect_special_requests and no other
\* field changes.
C12_SeatingChoiceKeepsUnset ==
    ChattedOn("suggest_seating") =>
        /\ Advanced("collect_special_requests", {"seatingPreference"})
        /\ Get(last.out.body.context, "seatingPreference")
              = SeatingChoice(Get(last.context, "seatingPreference"))

\* C12 (amended): the same, except that for a message of no keyword group an
\* unset preference is returned as no_preference.
C12_SeatingChoice ==
    ChattedOn("suggest_seating") =>
        /\ Advanced("collect_special_requests", {"seatingPreference"})
        /\ Get(last.out.body.context, "seatingPreference")
              = SeatingChoice(IF Truthy(Get(last.context, "seatingPreference"))
                              THEN Get(last.context, "seatingPreference")
                              ELSE Str("no_preference"))

\* agreement with no preference set yet is seated indoors
C12_Witness ==
    /\ ChattedOn("suggest_seating")
    /\ last.message = "Yes, confirm"
    /\ "seatingPreference" \notin DOMAIN last.context
    /\ IsStr(Get(last.out.body.context, "seatingPreference"), "indoor")
    /\ IsStr(Get(last.out.body.context, "step"), "collect_special_requests")

\* C13: a turn on collect_special_requests whose message holds no, none or
\* nothing returns a context without specialRequests; any other message
\* becomes specialRequests as it is.  Either way the returned step is
\* confirm_booking, neither the model nor the weather resolver is called, and
\* every other field is unchanged.
C13_SpecialRequests ==
    ChattedOn("collect_special_requests") =>
        /\ Advanced("confirm_booking", {"specialRequests"})
        /\ last.out.llmCalls = <<>>
        /\ last.out.weatherCalls = <<>>
        /\ IF Mentions(last.message, {"no", "none", "nothing"})
           THEN "specialRequests" \notin DOMAIN last.out.body.context
           ELSE Get(last.out.body.context, "specialRequests") = Str(last.message)

\* "no thanks" with nothing requested before: specialRequests stays unset
C13_Witness ==
    /\ ChattedOn("collect_special_requests")
    /\ last.message = "no thanks"
    /\ "specialRequests" \notin DOMAIN last.context
    /\ "customerName" \in DOMAIN last.context
    /\ "specialRequests" \notin DOMAIN last.out.body.context
    /\ IsStr(Get(last.out.body.context, "step"), "confirm_booking")

\* the words that confirm a booking
ConfirmationWords == {"yes", "confirm", "correct", "looks good", "that's right"}

\* the last operation was a chat request on confirm_booking with a confirming message
Confirmed == ChattedOn("confirm_booking") /\ Mentions(last.message, ConfirmationWords)

\* the documented default of each field a booking requires; today is the date
\* part of the server's clock
BookingDefaults ==
    [customerName |-> Str("Guest"), numberOfGuests |-> Num(2),
     bookingDate |-> Str(SubSeq(Now, 1, 10)), bookingTime |-> Str("7:00 PM"),
     cuisinePreference |-> Str("Any"), location |-> Str("Unknown"),
     seatingPreference |-> Str("no_preference")]

\* C14: a turn on confirm_booking whose message holds yes, confirm, correct,
\* looks good or that's right creates a booking with the context's fields, the
\* documented default standing in for each field the context lacks (absent, or
\* empty: "" or 0); the booking has status confirmed and is in the store, the
\* returned step is booking_complete, bookingComplete is true and the booking
\* is returned in the response.
C14_ConfirmedBooking ==
    Confirmed =>
        /\ Advanced("booking_complete", {})
        /\ last.out.body.bookingComplete = TRUE
        /\ "booking" \in DOMAIN last.out.body
        /\ LET booking == last.out.body.booking
           IN /\ \A f \in DOMAIN BookingDefaults :
                    booking[f] = IF Truthy(Get(last.context, f))
                                 THEN last.context[f]
                                 ELSE BookingDefaults[f]
              /\ \A f \in {"specialRequests", "weatherInfo"} :
                    Get(booking, f) = Get(last.context, f)
              /\ IsStr(Get(booking, "status"), "confirmed")
              /\ \E id \in DOMAIN last.out.store :
                    booking.bookingId = Str(id) /\ last.out.store[id] = booking

\* a bare context confirmed: every default stands in
C14_Witness ==
    /\ Confirmed
    /\ DOMAIN last.context = {"step"}
    /\ IsStr(last.out.body.booking.customerName, "Guest")
    /\ last.out.body.booking.numberOfGuests = Num(2)
    /\ IsStr(last.out.body.booking.status, "confirmed")
    /\ DOMAIN last.out.store /= {}

\* C15: a chat turn calls createBooking if and only if the incoming step is
\* confirm_booking and the message holds a confirmation word, and then once:
\* the store gains the one booking the response carries.  Every other chat
\* turn, a message that does not confirm on confirm_booking included, leaves
\* the store as it was.
C15_BookingOnlyOnConfirmation ==
    [][ last'.op = "chat" =>
          IF IsStr(Get(last'.context, "step"), "confirm_booking")
                /\ Mentions(last'.message, ConfirmationWords)
          THEN \E id \in BookingIds :
                  /\ "booking" \in DOMAIN last'.out.body
                  /\ last'.out.body.booking.bookingId = Str(id)
                  /\ bookings' = (id :> last'.out.body.booking) @@ bookings
          ELSE bookings' = bookings ]_vars

\* a message that does not confirm on confirm_booking: the turn goes through
\* the NLU adapter and the store stays empty
C15_Witness ==
    /\ ChattedOn("confirm_booking")
    /\ last.message = "change the time"
    /\ Delegated
    /\ last.out.status = 200
    /\ bookings = EmptyObject

\* the turn answered bookingComplete = true, or moved the context to
\* booking_complete from another step
Completed ==
    /\ Chatted
    /\ last.out.status = 200
    /\ \/ "bookingComplete" \in DOMAIN last.out.body /\ last.out.body.bookingComplete
       \/ /\ IsStr(Get(last.out.body.context, "step"), "booking_complete")
          /\ ~IsStr(Get(last.context, "step"), "booking_complete")

\* C16: whenever a chat turn returns bookingComplete = true, or returns step
\* booking_complete from an incoming context on another step, the response
\* carries a booking and that booking is in the store; turns of the NLU path
\* in which the model answers isConfirmed = true and next step
\* booking_complete are included.
C16_CompletedTurnHasBooking ==
    Completed =>
        /\ "booking" \in DOMAIN last.out.body
        /\ \E id \in DOMAIN last.out.store : last.out.store[id] = last.out.body.booking

\* sub occurs in s
Contains(s, sub) == \E i \in 1..Len(s), j \in 1..Len(s) : SubSeq(s, i, j) = sub

\* the message holds a greeting keyword, in either case
Greets(message) == \E w \in {"hello", "hi"} : Contains(toLowerCase(message), w)

\* the fallback parser has answered
FellBack == Len(ret) = 1 /\ "message" \in DOMAIN args

\* the fallback parser was given a context on the given step
FallbackOn(step) == FellBack /\ IsStr(Get(args.context, "step"), step)

\* the fallback parser answered with the given step and changed no field
\* other than the step and those of fields
FallbackMoved(step, fields) ==
    /\ IsStr(Get(ret[1].context, "step"), step)
    /\ SameExcept(ret[1].context, args.context, {"step"} \cup fields)

\* C17: in the fallback parser, when the context step is greeting or the
\* message holds "hello" or "hi" as a substring, at any step, the result is the
\* name-request response with step collect_name and every collected field
\* unchanged.
C17_FallbackGreeting ==
    FellBack /\ (IsStr(Get(args.context, "step"), "greeting") \/ Greets(args.message)) =>
        /\ ret[1].response = GreetingResponse
        /\ FallbackMoved("collect_name", {})

\* an upper-case greeting in the middle of a booking: back to collect_name,
\* the name kept
C17_Witness ==
    /\ FallbackOn("confirm_booking")
    /\ args.message = "HI there"
    /\ IsStr(Get(args.context, "customerName"), "Ana")
    /\ IsStr(Get(ret[1].context, "customerName"), "Ana")
    /\ IsStr(Get(ret[1].context, "step"), "collect_name")

\* C18: in the fallback parser at step collect_name with no customer name yet
\* and no greeting keyword in the message, the name becomes the whole message
\* when it has three words or fewer and its first two words otherwise (the
\* words being the pieces between single spaces), the step becomes
\* collect_guests and no other field changes.
C18_FallbackName ==
    FallbackOn("collect_name")
        /\ ~Truthy(Get(args.context, "customerName"))
        /\ ~Greets(args.message) =>
            LET words == split(args.message, " ")
                name == IF Len(words) <= 3 THEN args.message
                        ELSE words[1] \o " " \o words[2]
            IN /\ Get(ret[1].context, "customerName") = Str(name)
               /\ FallbackMoved("collect_guests", {"customerName"})

\* a message of five words gives its first two as the name
C18_Witness ==
    /\ FallbackOn("collect_name")
    /\ args.message = "my name is Ana Lee"
    /\ "customerName" \notin DOMAIN args.context
    /\ IsStr(Get(ret[1].context, "customerName"), "my name")
    /\ IsStr(Get(ret[1].context, "step"), "collect_guests")

\* the message holds a digit
HasDigit(message) == \E i \in 1..Len(message) : CharAt(message, i) \in DigitChars

\* n is the first integer written in the message
IsFirstInteger(message, n) ==
    \E i \in 1..Len(message), j \in 1..Len(message) :
        /\ i <= j
        /\ \A k \in 1..(i - 1) : CharAt(message, k) \notin DigitChars
        /\ \A k \in i..j : CharAt(message, k) \in DigitChars
        /\ (j = Len(message) \/ CharAt(message, j + 1) \notin DigitChars)
        /\ n = parseInt(SubSeq(message, i, j))

\* C19: in the fallback parser at step collect_guests with no greeting keyword
\* in the message, when the message holds an integer, numberOfGuests becomes
\* the first such integer clamped to 1..20, the step becomes collect_date and
\* no other field changes.
C19_FallbackGuests ==
    FallbackOn("collect_guests") /\ ~Greets(args.message) /\ HasDigit(args.message) =>
        /\ \E n \in 0..1000 :
              /\ IsFirstInteger(args.message, n)
              /\ Get(ret[1].context, "numberOfGuests")
                    = Num(IF n < 1 THEN 1 ELSE IF n > 20 THEN 20 ELSE n)
        /\ FallbackMoved("collect_date", {"numberOfGuests"})

\* of two integers in the message the first is taken
C19_Witness ==
    /\ FallbackOn("collect_guests")
    /\ args.message = "3 or 14 of us"
    /\ Get(ret[1].context, "numberOfGuests") = Num(3)
    /\ IsStr(Get(ret[1].context, "step"), "collect_date")

\* C20: in the fallback parser every step and message matched by none of the
\* three rules (collect_guests with no digit in the message, collect_name with
\* a name already captured, every step from collect_date on without a greeting
\* keyword) returns the generic repeat response with a context equal to the
\* input context in every field, step included.
C20_FallbackUnmatched ==
    FellBack
        /\ ~IsStr(Get(args.context, "step"), "greeting")
        /\ ~Greets(args.message)
        /\ ~(IsStr(Get(args.context, "step"), "collect_name")
               /\ ~Truthy(Get(args.context, "customerName")))
        /\ ~(IsStr(Get(args.context, "step"), "collect_guests") /\ HasDigit(args.message)) =>
            /\ ret[1].response = "I'm sorry, I didn't quite catch that. Could you please repeat?"
            /\ ret[1].context = args.context

\* a guest count given in words is not understood and the context is kept
C20_Witness ==
    /\ FallbackOn("collect_guests")
    /\ args.message = "lots of us"
    /\ IsStr(Get(args.context, "customerName"), "Ana")
    /\ ret[1].response = RepeatResponse
    /\ ret[1].context = args.context

\* C21: within one chat turn at most one call of the weather resolver and at
\* most one call of the completion service are made, one after the other, for
\* every incoming context and every outcome of the upstream calls, the
\* resolver returning null at step fetch_weather included.
C21_OneCallOfEachPerTurn ==
    Chatted => Len(last.out.weatherCalls) <= 1 /\ Len(last.out.llmCalls) <= 1

\* C21 as amended: within one chat turn at most one call of the completion
\* service is made and at most two of the weather resolver; a second resolver
\* call is made only after the first returned null at step fetch_weather and
\* the completion service was called, with the date of the adapter's result.
C21_CallsInSequence ==
    Chatted =>
        /\ Len(last.out.llmCalls) <= 1
        /\ Len(last.out.weatherCalls) <= 2
        /\ Len(last.out.weatherCalls) = 2 =>
              /\ IsStr(Get(last.context, "step"), "fetch_weather")
              /\ last.out.weatherCalls[1].result = Null
              /\ Len(last.out.llmCalls) = 1
              /\ Len(last.out.nlu) = 1
              /\ last.out.weatherCalls[2].date = Get(last.out.nlu[1].context, "bookingDate")

\* the forecast was empty at step fetch_weather, the adapter moved the step,
\* and the weather was asked for again in the same turn
C21_Witness ==
    /\ Chatted
    /\ Len(last.out.weatherCalls) = 2
    /\ last.out.weatherCalls[1].result = Null
    /\ Len(last.out.llmCalls) = 1
    /\ last.out.status = 200

\* the call was made with a key and its upstream request failed: the fetch was
\* rejected or answered with an error status, or the body lacks the member read
UpstreamFailed(call) ==
    /\ call.requests /= <<>>
    /\ \/ ~call.fetched.ok
       \/ call.requests = <<"forecast">> /\ "list" \notin DOMAIN call.fetched.data
       \/ call.requests = <<"weather">> /\ "weather" \notin DOMAIN call.fetched.data
       \/ /\ call.requests = <<"forecast">>
          /\ "list" \in DOMAIN call.fetched.data
          /\ Len(call.fetched.data.list) > 0
          /\ \A i \in 1..Len(call.fetched.data.list) :
                "weather" \notin DOMAIN call.fetched.data.list[i]

DaysAhead(call) ==
    LET days(d) == daysFromCivil(parseInt(SubSeq(d, 1, 4)), parseInt(SubSeq(d, 6, 7)),
                                 parseInt(SubSeq(d, 9, 10)))
    IN days(call.date) - days(call.today)

\* C23: with a credential configured the resolver picks its mode from the
\* date offset alone: a date before today gives the synthetic summary with no
\* upstream request; a date 0 to 5 days ahead issues the forecast request; a
\* date more than 5 days ahead issues the current-weather request and marks
\* the description as an estimate.
C23_ModeFromOffset ==
    \A i \in 1..Len(ret) :
        "requests" \in DOMAIN ret[i] /\ ret[i].key /\ IsIsoDate(ret[i].date) =>
            LET ahead == DaysAhead(ret[i])
            IN /\ ahead < 0 =>
                    ret[i].requests = <<>> /\ ret[i].result = getMockWeather(ret[i].date)
               /\ (ahead >= 0 /\ ahead <= 5) => ret[i].requests = <<"forecast">>
               /\ ahead > 5 =>
                    /\ ret[i].requests = <<"weather">>
                    /\ ~UpstreamFailed(ret[i]) =>
                          EndsWith(ret[i].result.o.description.s, " (estimate)")

\* the call was answered with the synthetic summary: no key, a date before
\* today, or an upstream request that failed
Synthetic(call) == ~call.key \/ call.requests = <<>> \/ UpstreamFailed(call)

\* C24: the synthetic summary is a function of the date string alone: two
\* resolutions of the same date that are answered synthetically give the same
\* summary in every field, whatever the location, the time of the call or the
\* calls made before.
C24_SyntheticByDateAlone ==
    Len(ret) = 2 /\ "requests" \in DOMAIN ret[1] =>
        (ret[1].date = ret[2].date /\ Synthetic(ret[1]) /\ Synthetic(ret[2]) =>
            ret[1].result = ret[2].result)

\* London today with the forecast request refused, Paris a day later when the
\* date is past: the same summary
C24_Witness ==
    /\ Len(ret) = 2 /\ "requests" \in DOMAIN ret[1]
    /\ ret[1].key
    /\ ret[1].location = "London" /\ ret[2].location = "Paris"
    /\ ret[1].requests = <<"forecast">> /\ ~ret[1].fetched.ok
    /\ ret[2].requests = <<>>
    /\ ret[1].today /= ret[2].today
    /\ ret[1].result = ret[2].result
    /\ IsWeatherInfo(ret[1].result)

\* C25: a weather summary is immutable once attached: a chat turn on a context
\* that carries weatherInfo returns a context with the same weatherInfo,
\* whatever step the context is on (fetch_weather included) and whatever the
\* model proposes.
C25_WeatherKept ==
    Chatted /\ last.out.status = 200 /\ "weatherInfo" \in DOMAIN last.context =>
        Get(last.out.body.context, "weatherInfo") = Get(last.context, "weatherInfo")

\* C26: a chat request that passes the schema ends in a failure response only
\* when the creation of the booking fails; the in-memory store never fails, so
\* whatever the weather service and the language model do (unreachable, error
\* status, malformed reply) the turn is answered with status 200.
C26_NoFailureFromUpstream ==
    Chatted /\ IsBookingContext(last.context) => last.out.status = 200

\* c is one of A-Z and 0-9
IsUpperAlphanumeric(c) ==
    \E k \in 1..36 : CharAt("ABCDEFGHIJKLMNOPQRSTUVWXYZ0123456789", k) = c

\* C27: every booking returned by createBooking has status confirmed and an
\* identifier made of BK- and exactly 8 characters of A-Z and 0-9, and right
\* after the creation getBooking with that identifier returns that booking.
C27_CreatedBooking ==
    last.op = "create" =>
        LET id == last.booking.bookingId.s
        IN /\ last.booking.status = Str("confirmed")
           /\ Len(id) = 11
           /\ SubSeq(id, 1, 3) = "BK-"
           /\ \A k \in 4..11 : IsUpperAlphanumeric(CharAt(id, k))
           /\ getBooking(bookings, id) = Obj(last.booking)

\* a second booking was created and is in the store under its identifier
C27_Witness ==
    /\ last.op = "create"
    /\ last.before /= EmptyObject
    /\ last.booking.bookingId = Str("BK-9F8E7D6C")
    /\ last.booking.customerName = Str("Ana")
    /\ bookings["BK-9F8E7D6C"] = last.booking

\* the last operation was the given operation of the store
StoreDid(op) == last.op = op /\ "before" \in DOMAIN last

\* C28: cancelling never deletes: deleteBooking on an existing identifier
\* returns true, sets that booking's status to cancelled and leaves the record
\* in the store with every other field as it was, also when it was cancelled
\* already; on an unknown identifier it returns false and the store is
\* unchanged.  No cancel and no status update removes a record, so every
\* identifier ever created is still in the store.
C28_CancelKeepsRecord ==
    /\ StoreDid("cancel") =>
          IF last.id \in DOMAIN last.before
          THEN /\ last.result = TRUE
               /\ DOMAIN bookings = DOMAIN last.before
               /\ bookings[last.id].status = Str("cancelled")
               /\ SameExcept(bookings[last.id], last.before[last.id], {"status"})
               /\ \A id \in DOMAIN bookings \ {last.id} : bookings[id] = last.before[id]
          ELSE last.result = FALSE /\ bookings = last.before
    /\ (StoreDid("cancel") \/ StoreDid("status")) => DOMAIN last.before \subseteq DOMAIN bookings
    /\ (StoreDid("cancel") \/ StoreDid("status") \/ StoreDid("create")
            \/ StoreDid("get") \/ StoreDid("list")) =>
          \A i \in 1..Len(args) : args[i] \in DOMAIN bookings

\* a booking that was cancelled is cancelled once more: true again, and the
\* record is still there next to the other one
C28_Witness ==
    /\ StoreDid("cancel")
    /\ last.id \in DOMAIN last.before
    /\ last.before[last.id].status = Str("cancelled")
    /\ last.result = TRUE
    /\ Cardinality(DOMAIN bookings) = 2
    /\ bookings[last.id].status = Str("cancelled")

\* C29: getAllBookings returns every stored booking exactly once, newest
\* created first: of two adjacent entries the earlier one's creation time is
\* greater than or equal to the later one's; the call leaves the store as it
\* was.
C29_ListNewestFirst ==
    StoreDid("list") =>
        /\ bookings = last.before
        /\ Len(last.result) = Cardinality(DOMAIN bookings)
        /\ \A id \in DOMAIN bookings :
              \E i \in 1..Len(last.result) : last.result[i] = bookings[id]
        /\ \A i \in 1..(Len(last.result) - 1) :
              getTime(last.result[i].createdAt.s) >= getTime(last.result[i + 1].createdAt.s)

\* two bookings made a millisecond apart are listed with the later one first
C29_Witness ==
    /\ StoreDid("list")
    /\ Len(last.result) = 2
    /\ last.result[1].createdAt = Str("2030-01-01T10:00:00.001Z")
    /\ last.result[2].createdAt = Str("2030-01-01T10:00:00.000Z")
    /\ args[1] = last.result[2].bookingId.s

\* C30: booking_complete is terminal: a chat turn on a context whose step is
\* booking_complete returns step booking_complete and creates no booking,
\* whatever the message and whatever the model replies.
C30_CompleteIsTerminal ==
    ChattedOn("booking_complete") /\ last.out.status = 200 =>
        /\ IsStr(Get(last.out.body.context, "step"), "booking_complete")
        /\ "booking" \notin DOMAIN last.out.body
        /\ last.out.store = EmptyObject

\* what a user may say when the language model is down
OfflineMessages == Messages \cup TalkMessages

\* the contexts and stores one more turn can lead to from context c and the
\* given store, when the call of the language model fails
OfflineTurn(c, store, key) ==
    LET outs == {chatHandler(m, c, store, key,
                             [net1 |-> n1, net2 |-> n2, llm |-> f, id |-> id, now |-> Now]) :
                    m \in OfflineMessages, n1 \in TalkNets, n2 \in TalkNets,
                    f \in FailedReplies, id \in BookingIds}
    IN {<<out.body.context, out.store>> : out \in {o \in outs : o.status = 200}}

\* the contexts and stores any number of such turns can lead to
RECURSIVE OfflineReach(_, _)
OfflineReach(seen, key) ==
    LET more == seen \cup UNION {OfflineTurn(p[1], p[2], key) : p \in seen}
    IN IF more = seen THEN seen ELSE OfflineReach(more, key)

\* C31: the fallback parser keeps the conversation going when the language
\* model fails: with the model failing on every turn, some sequence of user
\* messages drives a conversation from the initial context to step
\* booking_complete with a booking created.
C31_FallbackCompletes ==
    turns = 0 =>
        \E p \in OfflineReach({<<ctx, bookings>>}, apiKey) :
            IsStr(Get(p[1], "step"), "booking_complete") /\ p[2] /= EmptyObject

\* the forecast request of the call was answered with a list of whole entries
ForecastAnswered(call) ==
    /\ call.requests = <<"forecast">>
    /\ call.fetched.ok
    /\ "list" \in DOMAIN call.fetched.data
    /\ Len(call.fetched.data.list) > 0
    /\ \A i \in 1..Len(call.fetched.data.list) : "weather" \in DOMAIN call.fetched.data.list[i]

\* the entry the forecast rule names for the date: the first of the date with
\* an hour of 12 to 15, else the first of the date, else the first of all
EntryFor(list, date) ==
    LET ofDate == {i \in 1..Len(list) : SubSeq(list[i].dt_txt, 1, 10) = date}
        atMidday == {i \in ofDate : parseInt(SubSeq(list[i].dt_txt, 12, 13)) \in 12..15}
        least(S) == CHOOSE i \in S : \A k \in S : i <= k
    IN IF atMidday /= {} THEN least(atMidday)
       ELSE IF ofDate /= {} THEN least(ofDate)
       ELSE 1

\* C32: in forecast mode the resolver takes, in list order, the first entry of
\* the target date with an hour of 12 to 15 inclusive; failing that the first
\* entry of the target date; failing that the first entry of the list; and
\* the summary returned is built from that entry.
C32_ForecastEntry ==
    \A i \in 1..Len(ret) :
        "requests" \in DOMAIN ret[i] /\ ForecastAnswered(ret[i]) =>
            LET entry == ret[i].fetched.data.list[EntryFor(ret[i].fetched.data.list, ret[i].date)]
            IN /\ ret[i].result.t = "object"
               /\ ret[i].result.o.condition = Str(entry.weather[1].main)
               /\ ret[i].result.o.temperature = Num(entry.main.temp)
               /\ ret[i].result.o.description = Str(capitalizeWords(entry.weather[1].description))
               /\ ret[i].result.o.icon = Str(entry.weather[1].icon)
               /\ ret[i].result.o.humidity = Num(entry.main.humidity)
               /\ ret[i].result.o.windSpeed = Num(entry.wind.speed)

\* of four entries of the date at 11, 16, 15 and 12 hours the third is taken
C32_Witness ==
    /\ Len(ret) = 1
    /\ ForecastAnswered(ret[1])
    /\ ret[1].date = "2030-01-05"
    /\ Len(ret[1].fetched.data.list) = 4
    /\ ret[1].result.o.temperature = Num(143)
    /\ ret[1].result.o.description = Str("Few Clouds")

AllNoData ==
    /\ Chatted
    /\ last.out.weatherCalls /= <<>>
    /\ \A i \in 1..Len(last.out.weatherCalls) :
          last.out.weatherCalls[i].result = Null

\* C34: while the resolver returns null, no weather and no seating preference is
\* attached, and a turn of the NLU path whose returned context has a location
\* and a date but no weather returns the step fetch_weather, whatever step the
\* model or the fallback parser produced.
C34_StaysAtFetchWeather ==
    Delegated /\ last.out.status = 200 =>
        LET rc == last.out.nlu[1].context
            returned == Get(last.out.body, "context")
        IN /\ AllNoData =>
                /\ Get(returned, "weatherInfo") = Get(last.context, "weatherInfo")
                /\ Get(returned, "seatingPreference") = Get(rc, "seatingPreference")
                /\ Get(rc, "seatingPreference") = Get(last.context, "seatingPreference")
           /\ ( /\ Truthy(Get(returned, "location"))
                /\ Truthy(Get(returned, "bookingDate"))
                /\ ~Truthy(Get(returned, "weatherInfo")) )
                => IsStr(Get(returned, "step"), "fetch_weather")

\* the adapter moved on to another step, the resolver found no data for the
\* location and date now known, and the turn answers fetch_weather
C34_Witness ==
    /\ Delegated
    /\ last.out.status = 200
    /\ AllNoData
    /\ Truthy(Get(last.out.nlu[1].context, "step"))
    /\ ~IsStr(Get(last.out.nlu[1].context, "step"), "fetch_weather")
    /\ IsStr(Get(Get(last.out.body, "context"), "step"), "fetch_weather")
    /\ ~Truthy(Get(Get(last.out.body, "context"), "weatherInfo"))

\* the customer name the fallback parser reads from a message: the whole
\* message when it has three words or fewer, its first two words otherwise
NameIn(message) ==
    LET words == split(message, " ")
    IN IF Len(words) <= 3 THEN message ELSE words[1] \o " " \o words[2]

\* on a greeting turn the adapter was given collect_name as the step
GivenCollectName ==
    \E given \in {Set(last.context, "step", Str("collect_name"))} :
        last.out.nlu[1] = processConversation(last.message, given, last.out.llmCalls[1])

\* C35 as stated: on a turn whose incoming step is greeting the NLU path
\* receives collect_name as the step; when the model call fails and the message
\* holds no greeting keyword, the message (whole, or its first two words)
\* becomes the customer name and the returned step is collect_guests.
C35_GreetingTakesName ==
    ChattedOn("greeting") /\ Delegated =>
        /\ GivenCollectName
        /\ LlmFailed(last.out.llmCalls[1]) /\ ~Greets(last.message) =>
              /\ last.out.status = 200
              /\ Get(Get(last.out.body, "context"), "customerName") = Str(NameIn(last.message))
              /\ IsStr(Get(Get(last.out.body, "context"), "step"), "collect_guests")

\* the context has a location and a date and no weather: the turn fetches the
\* weather after the adapter returned
AwaitsWeather(context) ==
    /\ Truthy(Get(context, "location"))
    /\ Truthy(Get(context, "bookingDate"))
    /\ ~Truthy(Get(context, "weatherInfo"))

\* C35 with the name test alone added
C35_NamelessGreetingTakesName ==
    ChattedOn("greeting") /\ Delegated =>
        /\ GivenCollectName
        /\ ( /\ LlmFailed(last.out.llmCalls[1])
             /\ ~Greets(last.message)
             /\ ~Truthy(Get(last.context, "customerName")) ) =>
              /\ last.out.status = 200
              /\ Get(Get(last.out.body, "context"), "customerName") = Str(NameIn(last.message))
              /\ IsStr(Get(Get(last.out.body, "context"), "step"), "collect_guests")

\* C35, amended: on a turn whose incoming step is greeting the NLU path
\* receives collect_name as the step; when the model call fails, the message
\* holds no greeting keyword and the context holds no customer name, the
\* message (whole, or its first two words) becomes the customer name, and the
\* returned step is collect_guests unless the context has a location and a date
\* without weather, when the weather step after the adapter decides it.
C35_GreetingTakesNameIfNone ==
    ChattedOn("greeting") /\ Delegated =>
        /\ GivenCollectName
        /\ ( /\ LlmFailed(last.out.llmCalls[1])
             /\ ~Greets(last.message)
             /\ ~Truthy(Get(last.context, "customerName")) ) =>
              /\ last.out.status = 200
              /\ Get(Get(last.out.body, "context"), "customerName") = Str(NameIn(last.message))
              /\ IsStr(Get(last.out.nlu[1].context, "step"), "collect_guests")
              /\ ~AwaitsWeather(last.context) =>
                    IsStr(Get(Get(last.out.body, "context"), "step"), "collect_guests")
              /\ AwaitsWeather(last.context) =>
                    \/ IsStr(Get(Get(last.out.body, "context"), "step"), "fetch_weather")
                    \/ IsStr(Get(Get(last.out.body, "context"), "step"), "suggest_seating")

\* the first message of a conversation is a name in five words and the model
\* is out of reach: the first two words become the name
C35_Witness ==
    /\ ChattedOn("greeting")
    /\ Delegated
    /\ LlmFailed(last.out.llmCalls[1])
    /\ last.message = "my name is Ana Lee"
    /\ "customerName" \notin DOMAIN last.context
    /\ IsStr(Get(Get(last.out.body, "context"), "customerName"), "my name")
    /\ IsStr(Get(Get(last.out.body, "context"), "step"), "collect_guests")

\* what the model extracted for a field in the last request: Undefined when the
\* completion call failed or the reply names no such field
Extracted(field) ==
    IF LlmFailed(last.out.llmCalls[1]) THEN Undefined
    ELSE Prop(Get(last.out.llmCalls[1].json.value, "extractedData"), field)

\* the model extracted a value for the field that differs from the context's
ExtractedAnother(field) ==
    /\ Truthy(Get(last.out.llmCalls[1].json.value, "extractedData"))
    /\ Truthy(Extracted(field))
    /\ Extracted(field) /= Get(last.context, field)

\* C36: once weatherInfo is attached, an NLU turn in which the model extracts a
\* different location or bookingDate updates that field, leaves weatherInfo and
\* seatingPreference exactly as they were and makes no weather call.
C36_StaleWeatherKept ==
    Delegated /\ ~LlmFailed(last.out.llmCalls[1])
              /\ Truthy(Get(last.context, "weatherInfo")) =>
        \A field \in {"location", "bookingDate"} :
            ExtractedAnother(field) =>
                /\ last.out.status = 200
                /\ Get(Get(last.out.body, "context"), field) = Extracted(field)
                /\ Get(Get(last.out.body, "context"), "weatherInfo")
                      = Get(last.context, "weatherInfo")
                /\ Get(Get(last.out.body, "context"), "seatingPreference")
                      = Get(last.context, "seatingPreference")
                /\ last.out.weatherCalls = <<>>

\* the fields of a context that hold what was collected
CollectedFields ==
    {"customerName", "numberOfGuests", "bookingDate", "bookingTime", "cuisinePreference",
     "location", "specialRequests", "seatingPreference", "weatherInfo"}

\* the field is set in the incoming context and not in the returned one
Dropped(field) ==
    /\ Get(last.context, field) /= Undefined
    /\ Get(Get(last.out.body, "context"), field) = Undefined

\* C37 as stated: no chat turn turns a populated context field into an unset
\* one: each collected field that is set in the incoming context is set in the
\* returned context, on every step, for every message and model reply.
C37_NoFieldUnset ==
    Chatted /\ last.out.status = 200 => \A field \in CollectedFields : ~Dropped(field)

\* the guest declines special requests: the message, in lower case, holds no,
\* none or nothing
Declines(message) == \E w \in {"no", "none", "nothing"} : Contains(toLowerCase(message), w)

\* C37, amended: no chat turn turns a populated context field into an unset
\* one, except that a turn on collect_special_requests whose message holds no,
\* none or nothing removes specialRequests: every other collected field that is
\* set in the incoming context is set in the returned context, on every step,
\* for every message and model reply.
C37_NoFieldUnsetButDeclined ==
    Chatted /\ last.out.status = 200 =>
        \A field \in CollectedFields :
            Dropped(field) =>
                /\ field = "specialRequests"
                /\ ChattedOn("collect_special_requests")
                /\ Declines(last.message)

\* the model answers with every field null on a context that has them all:
\* all of them are still there
C37_Witness ==
    /\ Delegated
    /\ last.out.status = 200
    /\ ~LlmFailed(last.out.llmCalls[1])
    /\ Truthy(Get(last.out.llmCalls[1].json.value, "extractedData"))
    /\ Extracted("customerName") = Null
    /\ Extracted("location") = Null
    /\ \A field \in CollectedFields :
          /\ Get(last.context, field) /= Undefined
          /\ Get(Get(last.out.body, "context"), field) = Get(last.context, field)

\* the sum of the character codes of a date string, character by character
RECURSIVE CodeSum(_)
CodeSum(date) ==
    IF date = "" THEN 0 ELSE charCodeAt(CharAt(date, 1)) + CodeSum(SubSeq(date, 2, Len(date)))

\* C38: for every date string the synthetic summary has the condition that
\* (sum of character codes) mod 4 picks among Clear, Clouds, Rain and Sunny, a
\* temperature from 16 to 30 degrees, a humidity from 50 to 79 and a wind speed
\* from 2 to 9; the seating rule on it is never decided by temperature: Rain
\* gives indoor, Clear and Sunny give outdoor, Clouds gives no_preference.
C38_SyntheticRanges ==
    /\ Len(ret) >= 1 /\ "date" \notin DOMAIN ret[1] /\ "o" \in DOMAIN ret[1] =>
          /\ ret[1].o.condition.s = <<"Clear", "Clouds", "Rain", "Sunny">>[(CodeSum(args) % 4) + 1]
          /\ ret[1].o.temperature.n \in Degrees(16)..Degrees(30)
          /\ ret[1].o.humidity.n \in 50..79
          /\ ret[1].o.windSpeed.n \in 2..9
    /\ Len(ret) = 2 /\ "preference" \in DOMAIN ret[2] =>
          ret[2].preference =
              CASE ret[1].o.condition.s = "Rain" -> "indoor"
                [] ret[1].o.condition.s \in {"Clear", "Sunny"} -> "outdoor"
                [] OTHER -> "no_preference"

\* a sunny day at the hot limit itself, 30 degrees: outdoor
C38_Witness ==
    /\ Len(ret) = 2
    /\ "o" \in DOMAIN ret[1]
    /\ ret[1].o.condition.s = "Sunny"
    /\ ret[1].o.temperature.n = Degrees(HotLimit)
    /\ ret[2].preference = "outdoor"

\* the last step was the recogniser's error handler
Erred == "kind" \in DOMAIN last /\ last.op = "onerror"

\* the error handler took the error for one to retry after
Retried == Erred /\ last.kind = "network" /\ last.before.retryCount < 3

C40_NoStaleAnswer ==
    turns > 0 =>
        /\ ctx.contextFrom >= turns
        /\ \A i \in 1..Len(ctx.messages) : ctx.messages[i].from >= turns
        /\ ctx.confirmedBooking /= Null => ctx.bookingFrom >= turns

====
